---- MODULE Spec2Model ----
(***************************************************************************)
(* A model of plugins/rest_api_plugin.py: the REST endpoint /api of the    *)
(* Airflow REST API plugin.  One request is received, checked by           *)
(* http_token_secure, validated by REST_API.api against apis_metadata,     *)
(* dispatched by REST_API.execute_cli to a custom handler or to the        *)
(* generic command line, and answered through REST_API_Response_Util.      *)
(*                                                                         *)
(* Strings the code inspects character by character (strip, lower, split,  *)
(* startswith) are sequences of one-character strings; an optional value   *)
(* (Python None or a value) is the empty tuple or a one-element tuple; a   *)
(* Python dict with optional keys is a function whose domain is the set of *)
(* keys present.                                                           *)
(***************************************************************************)
EXTENDS Naturals, Integers, Sequences, FiniteSets, TLC

VARIABLES
    now,                \* the wall clock read by datetime.now()
    default_call_time,  \* the default of get_base_response's call_time parameter
    airflow_expected_http_token,   \* configuration, read once at import
    pc,                 \* "idle" | "responded"
    request,            \* the request being served (Flask's request), or NoRequest
    response,           \* what the client receives for it, or NoResponse
    steps,              \* what the code did while serving the request
    arrived,            \* when the request being served was received
    before,             \* the external stores when it was received
    last_response_time, \* response timestamp of the last completed request
    dag_files,          \* files in the DAGs folder (airflow_dags_folder)
    dag_models,         \* DagModel rows: dag_id -> is_paused
    variable_rows,      \* Variable rows: key -> value
    connection_rows,    \* Connection rows: the conn_ids stored
    pool_rows,          \* Pool rows: name -> <<slots, description>>
    dag_runs,           \* DagRun rows: <<dag_id, run_id, execution_date>>
    configuration,      \* process-wide: the config files whose options configuration.set has applied
    root_handlers,      \* process-wide: the handlers of logging.root
    launch_status,      \* what os.system returned while serving the request, or None
    assembly,           \* a descriptor, a query string and the command vector built for them
    filtering,          \* a captured stdout and what filter_loading_messages makes of it
    process             \* execute_cli_command and its child: pipes, positions, output

vars == <<now, default_call_time, airflow_expected_http_token, pc, request,
          response, steps, arrived, before, last_response_time, dag_files,
          dag_models, variable_rows, connection_rows, pool_rows, dag_runs,
          configuration, root_handlers, launch_status, assembly, filtering, process>>

-----------------------------------------------------------------------------
(* Bounds of the model *)

\* The clock runs from 0 to MaxTime; serving a request takes one tick.
MaxTime == 2
\* A request carries at most this many optional arguments of its descriptor
\* (beside any of the required ones).
MaxOptional == 1
\* A captured stdout has at most MaxLines lines.
MaxLines == 4
\* filter_loading_messages is applied at most MaxPasses times to a stdout.
MaxPasses == 2
\* A child process writes at most MaxOutput bytes to each of its streams.
MaxOutput == 3
\* A pipe buffers at most PipeCapacity bytes before a write to it blocks.
PipeCapacity == 2

-----------------------------------------------------------------------------
(* Python values *)

None == <<>>
Some(v) == <<v>>
IsNone(o) == Len(o) = 0
Val(o) == o[1]

\* dict.get(key) / request.args.get(key): None when the key is absent.
DictGet(d, k) == IF k \in DOMAIN d THEN Some(d[k]) ELSE None
\* d[k] = v
DictPut(d, k, v) == (k :> v) @@ d
EmptyDict == [k \in {} |-> 0]

\* str as a sequence of characters
EmptyStr == <<>>
IsSpace(c) == c \in {" ", "\t", "\n"}

RECURSIVE LStrip(_)
LStrip(s) == IF s # <<>> /\ IsSpace(Head(s)) THEN LStrip(Tail(s)) ELSE s

RECURSIVE RStrip(_)
RStrip(s) ==
    IF s # <<>> /\ IsSpace(s[Len(s)]) THEN RStrip(SubSeq(s, 1, Len(s) - 1)) ELSE s

\* str.strip()
Strip(s) == RStrip(LStrip(s))

UpperToLower ==
    [A |-> "a", B |-> "b", C |-> "c", D |-> "d", E |-> "e", F |-> "f", G |-> "g",
     H |-> "h", I |-> "i", J |-> "j", K |-> "k", L |-> "l", M |-> "m", N |-> "n",
     O |-> "o", P |-> "p", Q |-> "q", R |-> "r", S |-> "s", T |-> "t", U |-> "u",
     V |-> "v", W |-> "w", X |-> "x", Y |-> "y", Z |-> "z"]

\* str.lower()
Lower(s) ==
    [i \in 1..Len(s) |-> IF s[i] \in DOMAIN UpperToLower THEN UpperToLower[s[i]] ELSE s[i]]

\* Python truthiness of an optional string: None and "" are false.
TruthyStr(o) == ~IsNone(o) /\ Val(o) # EmptyStr

-----------------------------------------------------------------------------
(* The API registry *)

\* Arg that declares twice the end position written in the registry.
Arg_sparse(n, req, checkbox, pos) ==
    [name |-> n, required |-> req, checkbox |-> checkbox, cli_end_position |-> 2 * pos]

Arg(n, req, checkbox, pos) ==
    [name |-> n, required |-> req, checkbox |-> checkbox, cli_end_position |-> pos]
Fixed(n, v) == [name |-> n, fixed_value |-> v]
Api(n, chars, args, fixed, bg, post) ==
    [name |-> n, chars |-> chars, arguments |-> args, fixed_arguments |-> fixed,
     background_mode |-> bg, post_arguments |-> post]

\* name: the operation's name; chars: the same name as a character sequence;
\* cli_end_position 0: the argument declares none; checkbox: form_input_type
\* is "checkbox".
apis_metadata ==
  <<
    Api("version", <<"v", "e", "r", "s", "i", "o", "n">>,
        <<>>,
        <<>>, FALSE, <<>>),
    Api("rest_api_plugin_version", <<"r", "e", "s", "t", "_", "a", "p", "i", "_", "p", "l", "u", "g", "i", "n", "_", "v", "e", "r", "s", "i", "o", "n">>,
        <<>>,
        <<>>, FALSE, <<>>),
    Api("render", <<"r", "e", "n", "d", "e", "r">>,
        <<Arg("dag_id", TRUE, FALSE, 1),
          Arg("task_id", TRUE, FALSE, 2),
          Arg("execution_date", TRUE, FALSE, 3),
          Arg("subdir", FALSE, FALSE, 0)>>,
        <<>>, FALSE, <<>>),
    Api("variables", <<"v", "a", "r", "i", "a", "b", "l", "e", "s">>,
        <<Arg("set", FALSE, FALSE, 0),
          Arg("get", FALSE, FALSE, 0),
          Arg("json", FALSE, TRUE, 0),
          Arg("default", FALSE, FALSE, 0),
          Arg("import", FALSE, FALSE, 0),
          Arg("export", FALSE, FALSE, 0),
          Arg("delete", FALSE, FALSE, 0)>>,
        <<>>, FALSE, <<>>),
    Api("connections", <<"c", "o", "n", "n", "e", "c", "t", "i", "o", "n", "s">>,
        <<Arg("list", FALSE, TRUE, 0),
          Arg("add", FALSE, TRUE, 0),
          Arg("delete", FALSE, TRUE, 0),
          Arg("conn_id", FALSE, FALSE, 0),
          Arg("conn_uri", FALSE, FALSE, 0),
          Arg("conn_extra", FALSE, FALSE, 0)>>,
        <<>>, FALSE, <<>>),
    Api("pause", <<"p", "a", "u", "s", "e">>,
        <<Arg("dag_id", TRUE, FALSE, 1),
          Arg("subdir", FALSE, FALSE, 0)>>,
        <<>>, FALSE, <<>>),
    Api("unpause", <<"u", "n", "p", "a", "u", "s", "e">>,
        <<Arg("dag_id", TRUE, FALSE, 1),
          Arg("subdir", FALSE, FALSE, 0)>>,
        <<>>, FALSE, <<>>),
    Api("task_failed_deps", <<"t", "a", "s", "k", "_", "f", "a", "i", "l", "e", "d", "_", "d", "e", "p", "s">>,
        <<Arg("dag_id", TRUE, FALSE, 1),
          Arg("task_id", TRUE, FALSE, 2),
          Arg("execution_date", TRUE, FALSE, 3),
          Arg("subdir", FALSE, FALSE, 0)>>,
        <<>>, FALSE, <<>>),
    Api("trigger_dag", <<"t", "r", "i", "g", "g", "e", "r", "_", "d", "a", "g">>,
        <<Arg("dag_id", TRUE, FALSE, 1),
          Arg("subdir", FALSE, FALSE, 0),
          Arg("run_id", FALSE, FALSE, 0),
          Arg("conf", FALSE, FALSE, 0),
          Arg("exec_date", FALSE, FALSE, 0)>>,
        <<>>, FALSE, <<>>),
    Api("test", <<"t", "e", "s", "t">>,
        <<Arg("dag_id", TRUE, FALSE, 1),
          Arg("task_id", TRUE, FALSE, 2),
          Arg("execution_date", TRUE, FALSE, 3),
          Arg("subdir", FALSE, FALSE, 0),
          Arg("dry_run", FALSE, TRUE, 0),
          Arg("task_params", FALSE, FALSE, 0)>>,
        <<>>, FALSE, <<>>),
    Api("dag_state", <<"d", "a", "g", "_", "s", "t", "a", "t", "e">>,
        <<Arg("dag_id", TRUE, FALSE, 1),
          Arg("execution_date", FALSE, FALSE, 0),
          Arg("subdir", FALSE, FALSE, 0)>>,
        <<>>, FALSE, <<>>),
    Api("run", <<"r", "u", "n">>,
        <<Arg("dag_id", TRUE, FALSE, 1),
          Arg("task_id", TRUE, FALSE, 2),
          Arg("execution_date", TRUE, FALSE, 3),
          Arg("subdir", FALSE, FALSE, 0),
          Arg("mark_success", FALSE, TRUE, 0),
          Arg("force", FALSE, TRUE, 0),
          Arg("pool", FALSE, FALSE, 0),
          Arg("cfg_path", FALSE, FALSE, 0),
          Arg("local", FALSE, TRUE, 0),
          Arg("ignore_all_dependencies", FALSE, TRUE, 0),
          Arg("ignore_dependencies", FALSE, TRUE, 0),
          Arg("ignore_depends_on_past", FALSE, TRUE, 0),
          Arg("ship_dag", FALSE, TRUE, 0),
          Arg("pickle", FALSE, FALSE, 0)>>,
        <<>>, FALSE, <<>>),
    Api("list_tasks", <<"l", "i", "s", "t", "_", "t", "a", "s", "k", "s">>,
        <<Arg("dag_id", TRUE, FALSE, 1),
          Arg("tree", FALSE, TRUE, 0),
          Arg("subdir", FALSE, FALSE, 0)>>,
        <<>>, FALSE, <<>>),
    Api("backfill", <<"b", "a", "c", "k", "f", "i", "l", "l">>,
        <<Arg("dag_id", TRUE, FALSE, 1),
          Arg("task_regex", FALSE, FALSE, 0),
          Arg("start_date", FALSE, FALSE, 0),
          Arg("end_date", FALSE, FALSE, 0),
          Arg("mark_success", FALSE, TRUE, 0),
          Arg("local", FALSE, TRUE, 0),
          Arg("donot_pickle", FALSE, TRUE, 0),
          Arg("include_adhoc", FALSE, TRUE, 0),
          Arg("ignore_dependencies", FALSE, TRUE, 0),
          Arg("ignore_first_depends_on_past", FALSE, TRUE, 0),
          Arg("subdir", FALSE, FALSE, 0),
          Arg("pool", FALSE, FALSE, 0),
          Arg("dry_run", FALSE, TRUE, 0)>>,
        <<>>, FALSE, <<>>),
    Api("list_dags", <<"l", "i", "s", "t", "_", "d", "a", "g", "s">>,
        <<Arg("subdir", FALSE, FALSE, 0),
          Arg("report", FALSE, TRUE, 0)>>,
        <<>>, FALSE, <<>>),
    Api("kerberos", <<"k", "e", "r", "b", "e", "r", "o", "s">>,
        <<Arg("principal", TRUE, FALSE, 1),
          Arg("keytab", FALSE, FALSE, 0),
          Arg("pid", FALSE, FALSE, 0),
          Arg("daemon", FALSE, TRUE, 0),
          Arg("stdout", FALSE, FALSE, 0),
          Arg("stderr", FALSE, FALSE, 0),
          Arg("log-file", FALSE, FALSE, 0)>>,
        <<>>, TRUE, <<>>),
    Api("worker", <<"w", "o", "r", "k", "e", "r">>,
        <<Arg("do_pickle", FALSE, TRUE, 0),
          Arg("queues", FALSE, FALSE, 0),
          Arg("concurrency", FALSE, FALSE, 0),
          Arg("pid", FALSE, TRUE, 0),
          Arg("daemon", FALSE, TRUE, 0),
          Arg("stdout", FALSE, FALSE, 0),
          Arg("stderr", FALSE, FALSE, 0),
          Arg("log-file", FALSE, FALSE, 0)>>,
        <<>>, TRUE, <<>>),
    Api("flower", <<"f", "l", "o", "w", "e", "r">>,
        <<Arg("hostname", FALSE, FALSE, 0),
          Arg("port", FALSE, FALSE, 0),
          Arg("flower_conf", FALSE, FALSE, 0),
          Arg("broker_api", FALSE, FALSE, 0),
          Arg("pid", FALSE, FALSE, 0),
          Arg("daemon", FALSE, TRUE, 0),
          Arg("stdout", FALSE, FALSE, 0),
          Arg("stderr", FALSE, FALSE, 0),
          Arg("log-file", FALSE, FALSE, 0)>>,
        <<>>, TRUE, <<>>),
    Api("scheduler", <<"s", "c", "h", "e", "d", "u", "l", "e", "r">>,
        <<Arg("dag_id", FALSE, FALSE, 0),
          Arg("subdir", FALSE, FALSE, 0),
          Arg("run-duration", FALSE, FALSE, 0),
          Arg("num_runs", FALSE, FALSE, 0),
          Arg("do_pickle", FALSE, FALSE, 0),
          Arg("pid", FALSE, TRUE, 0),
          Arg("daemon", FALSE, TRUE, 0),
          Arg("stdout", FALSE, FALSE, 0),
          Arg("stderr", FALSE, FALSE, 0),
          Arg("log-file", FALSE, FALSE, 0)>>,
        <<>>, TRUE, <<>>),
    Api("task_state", <<"t", "a", "s", "k", "_", "s", "t", "a", "t", "e">>,
        <<Arg("dag_id", TRUE, FALSE, 1),
          Arg("task_id", TRUE, FALSE, 2),
          Arg("execution_date", TRUE, FALSE, 3),
          Arg("subdir", FALSE, FALSE, 0)>>,
        <<>>, FALSE, <<>>),
    Api("pool", <<"p", "o", "o", "l">>,
        <<Arg("set", FALSE, FALSE, 0),
          Arg("get", FALSE, FALSE, 0),
          Arg("delete", FALSE, FALSE, 0)>>,
        <<>>, FALSE, <<>>),
    Api("serve_logs", <<"s", "e", "r", "v", "e", "_", "l", "o", "g", "s">>,
        <<>>,
        <<>>, TRUE, <<>>),
    Api("clear", <<"c", "l", "e", "a", "r">>,
        <<Arg("dag_id", TRUE, FALSE, 1),
          Arg("task_regex", FALSE, FALSE, 0),
          Arg("start_date", FALSE, FALSE, 0),
          Arg("end_date", FALSE, FALSE, 0),
          Arg("subdir", FALSE, FALSE, 0),
          Arg("upstream", FALSE, TRUE, 0),
          Arg("downstream", FALSE, TRUE, 0),
          Arg("only_failed", FALSE, TRUE, 0),
          Arg("only_running", FALSE, TRUE, 0),
          Arg("exclude_subdags", FALSE, TRUE, 0)>>,
        <<Fixed("no_confirm", <<>>)>>, FALSE, <<>>),
    Api("deploy_dag", <<"d", "e", "p", "l", "o", "y", "_", "d", "a", "g">>,
        <<>>,
        <<>>, FALSE, <<Arg("dag_file", TRUE, FALSE, 0), Arg("force", FALSE, TRUE, 0), Arg("pause", FALSE, TRUE, 0), Arg("unpause", FALSE, TRUE, 0)>>),
    Api("refresh_dag", <<"r", "e", "f", "r", "e", "s", "h", "_", "d", "a", "g">>,
        <<Arg("dag_id", TRUE, FALSE, 0)>>,
        <<>>, FALSE, <<>>)
  >>

\* The descriptors with the given name (selected by name, lines 586-589).
ApiNames == {apis_metadata[i].name : i \in DOMAIN apis_metadata}
ApiNamed(n) == CHOOSE m \in {apis_metadata[i] : i \in DOMAIN apis_metadata} : m.name = n
ArgNamesOf(m) == {m.arguments[i].name : i \in DOMAIN m.arguments}

-----------------------------------------------------------------------------
(* The environment: what the orchestrator holds and which inputs are tried *)

\* Workflow identifiers, task identifiers, dates, keys.
D1 == <<"d", "1">>
D1Padded == <<" ", "d", "1">>
D2 == <<"d", "2">>
NoSuchDag == <<"z", "z">>
T1 == <<"t", "1">>
T9 == <<"t", "9">>
GoodDate == <<"2", "0", "1", "7">>
BadDate == <<"x">>
AltDir == <<"a", "l", "t">>
K1 == <<"k", "1">>
P1 == <<"p", "1">>
C1 == <<"c", "1">>
C9 == <<"c", "9">>
Word == <<"v">>
TwoWords == <<"a", " ", "b">>
ThreeWords == <<"p", "1", " ", "8", " ", "x">>
Present == EmptyStr
CfgFile == <<"f">>

\* The workflow each file of the DAGs folder defines.
NewPy == <<"n", "e", "w", ".", "p", "y">>
D1Py == <<"d", "1", ".", "p", "y">>
NotesTxt == <<"n", ".", "t", "x", "t">>
DagOfFile == (D1Py :> D1) @@ (NewPy :> D2)
\* The tasks of each workflow.
TasksOf == (D1 :> {T1}) @@ (D2 :> {T1})

\* Secrets
Secret == "s3cret"
Rotated == "0ld"

-----------------------------------------------------------------------------
(* Requests *)

PyExt == <<".", "p", "y">>

DateArgs == {"execution_date", "exec_date", "start_date", "end_date"}

\* The values tried for an argument of an operation.
ArgValues(api, name) ==
    CASE name = "dag_id" -> {EmptyStr, D1, D1Padded, NoSuchDag}
      [] name = "task_id" -> {T1, T9}
      [] name \in DateArgs -> {GoodDate, BadDate}
      [] name = "subdir" -> {AltDir}
      [] name = "set" -> IF api = "pool" THEN {ThreeWords, P1} ELSE {TwoWords, <<" ">>}
      [] name = "get" -> IF api = "pool" THEN {P1} ELSE {K1, <<"a">>}
      [] name = "delete" /\ api = "pool" -> {P1}
      [] name = "delete" /\ api = "variables" -> {<<"a">>}
      [] name = "conn_id" -> {C1, C9}
      [] name = "queues" -> {TwoWords}
      [] name = "cfg_path" -> {CfgFile, Word}
      [] OTHER ->
            IF \E i \in DOMAIN ApiNamed(api).arguments :
                  ApiNamed(api).arguments[i].name = name
                  /\ ApiNamed(api).arguments[i].checkbox
            THEN {Present}
            ELSE {Word}

RECURSIVE ArgMaps(_, _)
ArgMaps(api, names) ==
    IF names = {} THEN {EmptyDict}
    ELSE LET n == CHOOSE x \in names : TRUE
         IN  {DictPut(f, n, v) : f \in ArgMaps(api, names \ {n}), v \in ArgValues(api, n)}

RequiredNames(m) == {m.arguments[i].name : i \in {j \in DOMAIN m.arguments : m.arguments[j].required}}
OptionalNames(m) == ArgNamesOf(m) \ RequiredNames(m)

\* The argument sets tried for a descriptor: any of the required arguments
\* alone, and all of them with at most MaxOptional of the others.
ArgChoices(m) ==
    UNION {ArgMaps(m.name, rs) : rs \in SUBSET RequiredNames(m)}
    \cup UNION {ArgMaps(m.name, RequiredNames(m) \cup os) :
                  os \in {x \in SUBSET OptionalNames(m) : Cardinality(x) <= MaxOptional}}

\* The spellings of the api parameter that are tried.
Bogus == <<"b", "o", "g", "u", "s">>
OddSpellings ==
    {<<" ", "P", "a", "u", "S", "E", "\t">>, <<"V", "E", "R", "S", "I", "O", "N", " ">>,
     <<"p", "a", "u", " ", "s", "e">>}
Spellings(m) == {m.chars} \cup {s \in OddSpellings : Lower(Strip(s)) = m.chars}

\* Uploads tried with deploy_dag: the file part and the form fields.
Uploads ==
    {[files |-> f, form |-> g] :
        f \in {EmptyDict} \cup {("dag_file" :> n) : n \in {NewPy, D1Py, NotesTxt, EmptyStr}},
        g \in {EmptyDict, ("force" :> Present), ("pause" :> Present),
               ("pause" :> Present) @@ ("unpause" :> Present)}}
NoUpload == [files |-> EmptyDict, form |-> EmptyDict]

\* connections with the add flag and both, one or none of conn_id, conn_uri.
ConnectionAdds ==
    {("api" :> ApiNamed("connections").chars) @@ ("add" :> Present) @@ a :
        a \in {("conn_id" :> C9) @@ ("conn_uri" :> Word), ("conn_id" :> C1) @@ ("conn_uri" :> Word),
               ("conn_id" :> C9), ("conn_uri" :> Word)}}

RequestArgs ==
    {EmptyDict, ("dag_id" :> D1)}
    \cup ConnectionAdds
    \cup {DictPut(a, "api", s) : s \in {EmptyStr, <<" ">>, Bogus} \cup (OddSpellings \ UNION {Spellings(apis_metadata[i]) : i \in DOMAIN apis_metadata}),
                                 a \in {EmptyDict, ("dag_id" :> D1)}}
    \cup UNION {{DictPut(a, "api", s) : s \in Spellings(apis_metadata[i]),
                                        a \in ArgChoices(apis_metadata[i])} :
                   i \in DOMAIN apis_metadata}

Headers == {None, Some(Secret)}

Requests ==
    {[token |-> t, args |-> a, files |-> u.files, form |-> u.form] :
        t \in Headers, a \in RequestArgs,
        u \in {NoUpload}}
    \cup
    {[token |-> t, args |-> ("api" :> ApiNamed("deploy_dag").chars), files |-> u.files, form |-> u.form] :
        t \in Headers, u \in Uploads}

NoRequest == [token |-> None, args |-> EmptyDict, files |-> EmptyDict, form |-> EmptyDict]

-----------------------------------------------------------------------------
(* Output values and the response envelope *)

\* An output value: a Python str (a format and its arguments), list, dict or None.
Str(text, arg) == [type |-> "str", text |-> text, arg |-> arg]
List(items) == [type |-> "list", text |-> "", arg |-> items]
Dict(kind, keys) == [type |-> "dict", text |-> kind, arg |-> keys]
PyNone == [type |-> "none", text |-> "", arg |-> <<>>]

\* Python truthiness of an output value ("if output:").
Truthy(o) ==
    CASE o.type = "none" -> FALSE
      [] o.type = "str" -> o.text # ""
      [] OTHER -> o.arg # <<>>

\* REST_API_Response_Util.get_base_response.  The parameter call_time has the
\* default datetime.now(), which Python evaluates once, when the def statement
\* runs; no caller passes call_time.
get_base_response(req, call_time, include_arguments) ==
    LET base_response ==
            ("status" :> "OK") @@ ("http_response_code" :> 200) @@ ("call_time" :> call_time)
    IN  IF include_arguments
        THEN DictPut(DictPut(base_response, "arguments", req.args), "post_arguments", req.form)
        ELSE base_response

\* REST_API_Response_Util._get_final_response; t is datetime.now() at the call.
\* http_response_code 0 and airflow_cmd <<>> stand for None.
get_final_response(base_response, output, airflow_cmd, http_response_code, warning, t) ==
    LET r1 == DictPut(base_response, "response_time", t)
        r2 == IF Truthy(output) THEN DictPut(r1, "output", output) ELSE r1
        r3 == IF airflow_cmd # <<>> THEN DictPut(r2, "airflow_cmd", airflow_cmd) ELSE r2
        r4 == IF http_response_code # 0 THEN DictPut(r3, "http_response_code", http_response_code) ELSE r3
        r5 == IF Truthy(warning) THEN DictPut(r4, "warning", warning) ELSE r4
    IN  r5

\* A view's return value: the JSON body, and the HTTP status Flask sends with it.
Envelope(body, http) == [kind |-> "envelope", body |-> body, http |-> http, exc |-> ""]

\* REST_API_Response_Util.get_200_response: the body alone is returned, which
\* Flask sends with status 200.
get_200_response(base_response, output, airflow_cmd, warning, t) ==
    Envelope(get_final_response(base_response, output, airflow_cmd, 0, warning, t), 200)

\* REST_API_Response_Util._get_error_response: the pair (body, error_code).
get_error_response(base_response, error_code, output, t) ==
    Envelope(get_final_response(DictPut(base_response, "status", "ERROR"),
                                output, <<>>, error_code, PyNone, t),
             error_code)

get_400_error_response(base_response, output, t) ==
    get_error_response(base_response, 400, output, t)
get_403_error_response(base_response, output, t) ==
    get_error_response(base_response, 403, output, t)
get_500_error_response(base_response, output, t) ==
    get_error_response(base_response, 500, output, t)

\* An exception that leaves the view function: no envelope is built; Flask
\* answers with its own 500 page.
Unhandled(exc) == [kind |-> "unhandled", body |-> EmptyDict, http |-> 500, exc |-> exc]
NoResponse == [kind |-> "none", body |-> EmptyDict, http |-> 0, exc |-> ""]

-----------------------------------------------------------------------------
(* The external stores *)

World ==
    [dag_files |-> dag_files, dag_models |-> dag_models, variable_rows |-> variable_rows,
     connection_rows |-> connection_rows, pool_rows |-> pool_rows, dag_runs |-> dag_runs]

\* logging.root.handlers: the handlers Airflow installed at start-up, none,
\* or the file handler basicConfig installs for a task log.
AirflowHandlers == "airflow"
NoHandlers == "none"
TaskLogHandler == "task_log"

\* The stores together with what the operating system gives the request
\* being served: the status os.system returns for a launched command line,
\* and the text read from the pipes of a child started by Popen.
Host(exit_status) ==
    [dag_files |-> dag_files, dag_models |-> dag_models, variable_rows |-> variable_rows,
     connection_rows |-> connection_rows, pool_rows |-> pool_rows, dag_runs |-> dag_runs,
     exit_status |-> exit_status, child |-> [stdout |-> EmptyStr, stderr |-> EmptyStr],
     configuration |-> configuration, root_handlers |-> root_handlers]

\* DagBag(dag_folder).dags: the workflows defined by the files of the folder.
\* Another folder than the configured one (subdir) holds no workflow here.
DagBag(w, subdir) ==
    IF TruthyStr(subdir) THEN {}
    ELSE {DagOfFile[f] : f \in w.dag_files \cap DOMAIN DagOfFile}

\* dagbag.get_dag(dag_id): the workflow, or None.
get_dag(dagbag, dag_id) == IF dag_id \in dagbag THEN Some(dag_id) ELSE None

\* dateutil.parser.parse succeeds
Parses(date) == date = GoodDate

\* Paths that exist on the host (os.path.exists), and the log directories
\* BASE_LOG_FOLDER/dag_id/task_id that exist.
ExistingPaths == {CfgFile}
LogDirs == {<<D1, T1>>}

\* What a handler has done: an outcome and the stores after it.
\* ok: it reached its else branch with this output; airflow_exc: an
\* AirflowException reached its except clause; raise: another exception left it.
Ok(output) == [k |-> "ok", output |-> output, exc |-> ""]
AirflowExc(msg) == [k |-> "airflow_exc", output |-> msg, exc |-> ""]
Raise(exc) == [k |-> "raise", output |-> PyNone, exc |-> exc]

\* try: ... except AirflowException as e: 400 with str(e) ... else: 200
Finish(base_response, outcome, t) ==
    CASE outcome.k = "ok" -> get_200_response(base_response, outcome.output, <<>>, PyNone, t)
      [] outcome.k = "airflow_exc" -> get_400_error_response(base_response, outcome.output, t)
      [] OTHER -> Unhandled(outcome.exc)

Handled(resp, w, st) == [resp |-> resp, world |-> w, steps |-> st]

-----------------------------------------------------------------------------
(* Custom handlers.  Each takes the stores, the request, the base response   *)
(* and the time of its reply, and yields the view's return value, the stores *)
(* after it and what it did.                                                 *)

ArgOf(req, n) == DictGet(req.args, n)
HasArg(req, n) == n \in DOMAIN req.args

SessionOpen == <<"session", "open">>
SessionClose == <<"session", "close">>

\* The index of the first whitespace character of s, or Len(s) + 1.
RECURSIVE FirstSpace(_, _)
FirstSpace(s, i) ==
    IF i > Len(s) \/ IsSpace(s[i]) THEN i ELSE FirstSpace(s, i + 1)

\* str.split() without argument: the words between runs of whitespace.
RECURSIVE SplitWs(_)
SplitWs(s) ==
    LET u == LStrip(s)
    IN  IF u = <<>> THEN <<>>
        ELSE LET n == FirstSpace(u, 1)
             IN  <<SubSeq(u, 1, n - 1)>> \o SplitWs(SubSeq(u, n, Len(u)))

\* " ".join(words)
RECURSIVE JoinSp(_)
JoinSp(words) ==
    IF words = <<>> THEN <<>>
    ELSE IF Len(words) = 1 THEN words[1]
    ELSE words[1] \o <<" ">> \o JoinSp(Tail(words))

\* " " in s
HasSpace(s) == \E i \in DOMAIN s : s[i] = " "

version(w, req, base_response, t) ==
    Handled(Finish(base_response, Ok(Str("v%s", <<"airflow_version">>)), t), w, {})

rest_api_plugin_version(w, req, base_response, t) ==
    Handled(Finish(base_response, Ok(Str("v%s", <<"rest_api_plugin_version">>)), t), w, {})

\* REST_API has no method render of its own: getattr finds the method render
\* inherited from flask_admin's BaseView, render(template, **kwargs), which is
\* called with the base response as its template and raises.
render(w, req, base_response, t) ==
    Handled(Unhandled("TemplateNotFound"), w, {})

\* variables: the stages get, delete, set, import, export run in this order,
\* each when its argument is given; a stage is [k, rows, keys, msg].
VarGo(rows, keys) == [k |-> "go", rows |-> rows, keys |-> keys, out |-> Ok(PyNone)]
VarStop(rows, out) == [k |-> "stop", rows |-> rows, keys |-> <<>>, out |-> out]

variables_func_get(s, req) ==
    LET args_get == Val(ArgOf(req, "get"))
    IN  IF args_get \in DOMAIN s.rows
        THEN IF HasArg(req, "json")
             THEN VarStop(s.rows, Raise("ValueError"))    \* json.loads of a value that is no JSON
             ELSE VarGo(s.rows, Append(s.keys, "get"))
        ELSE IF ~IsNone(ArgOf(req, "default"))
             THEN VarGo(s.rows, Append(s.keys, "get"))
             ELSE VarStop(s.rows, Raise("VariableDoesNotExist"))

variables_func_delete(s, req) ==
    LET args_delete == Val(ArgOf(req, "delete"))
    IN  VarGo([k \in DOMAIN s.rows \ {args_delete} |-> s.rows[k]], Append(s.keys, "delete"))

variables_func_set(s, req) ==
    LET args_set == Val(ArgOf(req, "set"))
        arr == IF HasSpace(args_set) THEN SplitWs(args_set) ELSE <<args_set>>
    IN  IF arr = <<>> THEN VarStop(s.rows, Raise("IndexError"))
        ELSE LET key == arr[1]
                 value == IF 1 < Len(arr) THEN Some(JoinSp(Tail(arr))) ELSE None
             IN  VarGo(DictPut(s.rows, key, value), Append(s.keys, "set"))

variables_func_import(s, req) ==
    IF Val(ArgOf(req, "import")) \in ExistingPaths
    THEN VarStop(s.rows, Raise("NameError"))       \* import_helper is not defined
    ELSE VarStop(s.rows, AirflowExc(Str("Missing variables file.", <<>>)))

variables_func_export(s, req) == VarGo(s.rows, Append(s.keys, "export"))

\* One stage of variables: it runs when the ones before did not raise and
\* its argument is given.
variables_stage(s, name, req) ==
    IF s.k = "go" /\ TruthyStr(ArgOf(req, name))
    THEN CASE name = "get" -> variables_func_get(s, req)
           [] name = "delete" -> variables_func_delete(s, req)
           [] name = "set" -> variables_func_set(s, req)
           [] name = "import" -> variables_func_import(s, req)
           [] OTHER -> variables_func_export(s, req)
    ELSE s

RECURSIVE variables_stages(_, _, _)
variables_stages(s, names, req) ==
    IF names = <<>> THEN s
    ELSE variables_stages(variables_stage(s, Head(names), req), Tail(names), req)

variables_finish(w, s5, any, base_response, t) ==
    Handled(Finish(base_response,
                   IF s5.k = "stop" THEN s5.out
                   ELSE Ok(Dict("variables", IF any THEN s5.keys ELSE <<"all">>)),
                   t),
            [w EXCEPT !.variable_rows = s5.rows],
            {SessionOpen, SessionClose})

variables(w, req, base_response, t) ==
    variables_finish(w,
        variables_stages(VarGo(w.variable_rows, <<>>),
                         <<"get", "delete", "set", "import", "export">>, req),
        \E n \in {"set", "get", "import", "export", "delete"} : TruthyStr(ArgOf(req, n)),
        base_response, t)

\* connections.  info is locals() of connections, which holds conn_id,
\* conn_url and conn_extra and no conn_uri: info.get('conn_uri') is None.
connections_info(req) ==
    ("conn_id" :> ArgOf(req, "conn_id")) @@ ("conn_url" :> ArgOf(req, "conn_url"))
    @@ ("conn_extra" :> ArgOf(req, "conn_extra"))

InfoGiven(info, names) ==
    SelectSeq(names, LAMBDA n : n \in DOMAIN info /\ ~IsNone(info[n]))
InfoMissing(info, names) ==
    SelectSeq(names, LAMBDA n : ~(n \in DOMAIN info /\ ~IsNone(info[n])))

connections_func_list(w, info) ==
    LET invalid_args == InfoGiven(info, <<"conn_id", "conn_uri", "conn_extra">>)
    IN  IF invalid_args # <<>>
        THEN [out |-> AirflowExc(Str("The following args are not compatible with the --list flag: %r", invalid_args)),
              rows |-> w.connection_rows]
        ELSE [out |-> Ok(List(IF w.connection_rows = {} THEN <<>> ELSE <<"connections">>)),
              rows |-> w.connection_rows]

connections_func_delete(w, info) ==
    LET invalid_args == InfoGiven(info, <<"conn_uri", "conn_extra">>)
        conn_id == info["conn_id"]
    IN  IF invalid_args # <<>>
        THEN [out |-> AirflowExc(Str("The following args are not compatible with the --delete flag: %r", invalid_args)),
              rows |-> w.connection_rows]
        ELSE IF IsNone(conn_id)
        THEN [out |-> AirflowExc(Str("To delete a connection, you Must provide a value for the --conn_id flag.", <<>>)),
              rows |-> w.connection_rows]
        ELSE IF Val(conn_id) \notin w.connection_rows
        THEN [out |-> AirflowExc(Str("Did not find a connection with conn_id=%s", Val(conn_id))),
              rows |-> w.connection_rows]
        ELSE [out |-> Ok(Str("Successfully deleted conn_id=%s", Val(conn_id))),
              rows |-> w.connection_rows \ {Val(conn_id)}]

connections_func_add(w, info) ==
    LET missing_args == InfoMissing(info, <<"conn_id", "conn_uri">>)
    IN  IF missing_args # <<>>
        THEN [out |-> AirflowExc(Str("The following args are required to add a connection: %r", missing_args)),
              rows |-> w.connection_rows]
        ELSE \* Connection(conn_id=conn_id, uri=conn_uri): conn_uri is not defined
             [out |-> Raise("NameError"), rows |-> w.connection_rows]

connections(w, req, base_response, t) ==
    LET info == connections_info(req)
        r == IF HasArg(req, "list") THEN connections_func_list(w, info)
             ELSE IF HasArg(req, "delete") THEN connections_func_delete(w, info)
             ELSE IF HasArg(req, "add") THEN connections_func_add(w, info)
             ELSE [out |-> AirflowExc(Str("Please select list/add/delete", <<>>)),
                   rows |-> w.connection_rows]
    IN  Handled(Finish(base_response, r.out, t),
                [w EXCEPT !.connection_rows = r.rows],
                {SessionOpen, SessionClose})

\* set_is_paused: the outcome (the workflow, or an exception), the rows and
\* whether a session was opened; the session is never closed.
set_is_paused(w, is_paused, dag_id, subdir) ==
    LET dagbag == DagBag(w, subdir)
    IN  IF ~TruthyStr(dag_id)
        THEN [out |-> AirflowExc(Str("Who hid the dig_id!?", <<>>)), rows |-> w.dag_models, steps |-> {}]
        ELSE LET dag == get_dag(dagbag, Val(dag_id))
             IN  IF IsNone(dag)               \* dag.dag_id on None
                 THEN [out |-> Raise("AttributeError"), rows |-> w.dag_models, steps |-> {SessionOpen}]
                 ELSE IF Val(dag) \notin DOMAIN w.dag_models    \* dm is None
                 THEN [out |-> Raise("AttributeError"), rows |-> w.dag_models, steps |-> {SessionOpen}]
                 ELSE [out |-> Ok(Str("Dag: %s, paused: %s", Val(dag))),
                       rows |-> DictPut(w.dag_models, Val(dag), is_paused),
                       steps |-> {SessionOpen}]

set_is_pause(w, req, base_response, t, is_pause) ==
    LET r == set_is_paused(w, is_pause, ArgOf(req, "dag_id"), ArgOf(req, "subdir"))
    IN  Handled(Finish(base_response, r.out, t), [w EXCEPT !.dag_models = r.rows], r.steps)

pause(w, req, base_response, t) == set_is_pause(w, req, base_response, t, TRUE)
unpause(w, req, base_response, t) == set_is_pause(w, req, base_response, t, FALSE)

\* The DagRun rows of a workflow, and those with a given execution date.
RunsOf(w, dag_id) == {r \in w.dag_runs : r[1] = dag_id}
RunsAt(w, dag_id, date) == {r \in w.dag_runs : r[1] = dag_id /\ r[3] = date}
\* The execution date datetime.now() gives, and the run ids the code makes up.
NowStamp == <<"n", "o", "w">>
ManualRunId(date) == <<"m", "_">> \o date
BackfillRunId(date) == <<"b", "_">> \o date

s_msg(which, date) ==
    Str("Given %s date, %s, could not be identified as a date.", <<which>> \o date)

\* dag.get_task(task_id) raises AirflowException when the task is not in the dag.
HasTask(dag_id, task_id) == task_id \in TasksOf[dag_id]
TaskNotFound(task_id) == AirflowExc(Str("Task %s not found", task_id))

\* The part common to task_failed_deps, test, task_state and run: find the
\* workflow (dag.get_task on None raises AttributeError), the task and the date.
FindTaskInstance(w, req) ==
    LET dag == get_dag(DagBag(w, ArgOf(req, "subdir")), Val(ArgOf(req, "dag_id")))
        task_id == Val(ArgOf(req, "task_id"))
        execution_date == Val(ArgOf(req, "execution_date"))
    IN  IF IsNone(dag) THEN Raise("AttributeError")
        ELSE IF ~HasTask(Val(dag), task_id) THEN TaskNotFound(task_id)
        ELSE IF ~Parses(execution_date) THEN AirflowExc(s_msg("execution", execution_date))
        ELSE Ok(PyNone)

\* The task instance has a state (it has run or is scheduled) when its
\* workflow has a run at that date.
HasState(w, req) ==
    RunsAt(w, Val(ArgOf(req, "dag_id")), Val(ArgOf(req, "execution_date"))) # {}

task_failed_deps(w, req, base_response, t) ==
    LET found == IF ~TruthyStr(ArgOf(req, "dag_id"))
                 THEN AirflowExc(Str("Who hid the dig_id!?", <<>>))
                 ELSE FindTaskInstance(w, req)
        out == IF found.k # "ok" THEN found
               ELSE IF ~HasState(w, req)
               THEN AirflowExc(Dict("failed_deps", <<"dep_name">>))
               ELSE Ok(Str("Task instance dependencies are all met.", <<>>))
    IN  Handled(Finish(base_response, out, t), w, {})

trigger_dag(w, req, base_response, t) ==
    LET dag_id == Val(ArgOf(req, "dag_id"))
        exec_date == ArgOf(req, "exec_date")
        execution_date == IF TruthyStr(exec_date) THEN Val(exec_date) ELSE NowStamp
        run_id == IF TruthyStr(ArgOf(req, "run_id")) THEN Val(ArgOf(req, "run_id"))
                  ELSE ManualRunId(execution_date)
        row == <<dag_id, run_id, execution_date>>
        r == IF TruthyStr(exec_date) /\ ~Parses(Val(exec_date))
             THEN [out |-> AirflowExc(s_msg("execution", Val(exec_date))), runs |-> w.dag_runs]
             ELSE IF dag_id \notin DagBag(w, None)
             THEN [out |-> AirflowExc(Str("Dag id %s not found", dag_id)), runs |-> w.dag_runs]
             ELSE IF \E x \in RunsOf(w, dag_id) : x[2] = run_id /\ (TruthyStr(exec_date) \/ TruthyStr(ArgOf(req, "run_id")))
             THEN [out |-> AirflowExc(Str("Run id %s already exists for dag id %s", run_id)), runs |-> w.dag_runs]
             ELSE IF TruthyStr(exec_date) /\ RunsAt(w, dag_id, execution_date) # {}
             THEN [out |-> Raise("IntegrityError"), runs |-> w.dag_runs]
             ELSE [out |-> Ok(Dict("dag_run", <<"run_id">>)), runs |-> w.dag_runs \cup {row}]
    IN  Handled(Finish(base_response, r.out, t), [w EXCEPT !.dag_runs = r.runs], {})

test(w, req, base_response, t) ==
    LET found == FindTaskInstance(w, req)
        out == IF found.k # "ok" THEN found ELSE Ok(Dict("task_instance", <<"state">>))
    IN  Handled(Finish(base_response, out, t), w,
                IF found.k = "ok" THEN {<<"task", "run">>} ELSE {})

dag_state(w, req, base_response, t) ==
    LET dag_id == Val(ArgOf(req, "dag_id"))
        execution_date == ArgOf(req, "execution_date")
        out == IF TruthyStr(execution_date)
               THEN IF ~Parses(Val(execution_date))
                    THEN AirflowExc(s_msg("execution", Val(execution_date)))
                    ELSE IF RunsAt(w, dag_id, Val(execution_date)) = {}
                    THEN Raise("IndexError")              \* dr[0] of an empty list
                    ELSE Ok(Dict("dag_run", <<"state">>))
               ELSE Ok(List(IF RunsOf(w, dag_id) = {} THEN <<>> ELSE <<"dag_run">>))
    IN  Handled(Finish(base_response, out, t), w, {})

\* run.  func_logging raises NameError (mkdirs) when the log directory is
\* missing; func_local raises NameError (filename); func_no_local with
\* ship_dag catches the NameError of DagPickle, builds a 400 response on the
\* base response, and its return value is dropped by run.
run(w, req, base_response, t) ==
    LET dag_id == Val(ArgOf(req, "dag_id"))
        task_id == Val(ArgOf(req, "task_id"))
        cfg == IF TruthyStr(ArgOf(req, "cfg_path")) /\ Val(ArgOf(req, "cfg_path")) \in ExistingPaths
               THEN {<<"configuration", "set">>} ELSE {}
        logged == {<<"logging", "handlers">>}
        found == FindTaskInstance(w, req)
        pickled == get_400_error_response(base_response,
                       Str("Could not pickle the DAG, %s", <<"NameError">>), t)
        output == Dict("run", <<"message", "detail">>)
        sess == {SessionOpen, SessionClose}
        \* func_cfg_path: configuration.set for every option of the file
        w1 == IF cfg = {} THEN w
              ELSE [w EXCEPT !.configuration = @ \cup {Val(ArgOf(req, "cfg_path"))}]
        \* func_logging: logging.root.handlers = [], then basicConfig(filename)
        cleared == [w1 EXCEPT !.root_handlers = NoHandlers]
        to_file == [w1 EXCEPT !.root_handlers = TaskLogHandler]
    IN  IF <<dag_id, task_id>> \notin LogDirs
        THEN Handled(Unhandled("NameError"), cleared, sess \cup cfg \cup logged)
        ELSE IF found.k # "ok"
        THEN Handled(Finish(base_response, found, t), to_file, sess \cup cfg \cup logged)
        ELSE IF HasArg(req, "local")
        THEN Handled(Unhandled("NameError"), to_file, sess \cup cfg \cup logged)
        ELSE IF HasArg(req, "ship_dag")
        THEN Handled(get_200_response(pickled.body, output, <<>>, PyNone, t), cleared,
                     sess \cup cfg \cup logged)
        ELSE Handled(get_200_response(base_response, output, <<>>, PyNone, t), cleared,
                     sess \cup cfg \cup logged \cup {<<"task", "queued">>})

list_tasks(w, req, base_response, t) ==
    LET dag_id == ArgOf(req, "dag_id")
        dag == get_dag(DagBag(w, ArgOf(req, "subdir")), Val(dag_id))
        out == IF ~TruthyStr(dag_id) THEN AirflowExc(Str("Who hid the dig_id!?", <<>>))
               ELSE IF IsNone(dag) THEN AirflowExc(Str("active DAG not found", <<>>))
               ELSE Ok(List(<<"task_id">>))
    IN  Handled(Finish(base_response, out, t), w, {})

\* The dates given to backfill: an AirflowException, or the start date.
backfill_func_date(req) ==
    LET start_date == ArgOf(req, "start_date")
        end_date == ArgOf(req, "end_date")
    IN  IF TruthyStr(start_date) /\ ~Parses(Val(start_date))
        THEN AirflowExc(s_msg("start", Val(start_date)))
        ELSE IF TruthyStr(end_date) /\ ~Parses(Val(end_date))
        THEN AirflowExc(s_msg("end", Val(end_date)))
        ELSE IF ~(TruthyStr(start_date) \/ TruthyStr(end_date))
        THEN AirflowExc(Str("Provide a start_date and/or end_date", <<>>))
        ELSE Ok(PyNone)

backfill(w, req, base_response, t) ==
    LET dag_id == ArgOf(req, "dag_id")
        dag == get_dag(DagBag(w, ArgOf(req, "subdir")), Val(dag_id))
        dates == backfill_func_date(req)
        date == IF TruthyStr(ArgOf(req, "start_date")) THEN Val(ArgOf(req, "start_date"))
                ELSE Val(ArgOf(req, "end_date"))
        r == IF ~TruthyStr(dag_id)
             THEN [out |-> AirflowExc(Str("Who hid the dig_id!? [dag_id or pickle]", <<>>)), runs |-> w.dag_runs]
             ELSE IF TruthyStr(ArgOf(req, "task_regex")) /\ IsNone(dag)     \* dag.sub_dag on None
             THEN [out |-> Raise("AttributeError"), runs |-> w.dag_runs]
             ELSE IF dates.k # "ok" THEN [out |-> dates, runs |-> w.dag_runs]
             ELSE IF TruthyStr(ArgOf(req, "dry_run"))                        \* loggin is not defined
             THEN [out |-> Raise("NameError"), runs |-> w.dag_runs]
             ELSE IF IsNone(dag)                                             \* dag.run on None
             THEN [out |-> Raise("AttributeError"), runs |-> w.dag_runs]
             ELSE [out |-> Ok(Str("Runs the DAG: %s", Val(dag))),
                   runs |-> IF RunsAt(w, Val(dag), date) = {}
                            THEN w.dag_runs \cup {<<Val(dag), BackfillRunId(date), date>>}
                            ELSE w.dag_runs]
    IN  Handled(Finish(base_response, r.out, t), [w EXCEPT !.dag_runs = r.runs], {})

list_dags(w, req, base_response, t) ==
    LET dags == DagBag(w, ArgOf(req, "subdir"))
        out == IF HasArg(req, "report")
               THEN Ok(Dict("report", <<"dag_folder", "Number of DAGs", "Total task number",
                                        "DagBag parsing time", "detail">>))
               ELSE Ok(List(IF dags = {} THEN <<>> ELSE <<"dag_id">>))
    IN  Handled(Finish(base_response, out, t), w, {})

task_state(w, req, base_response, t) ==
    LET found == IF ~TruthyStr(ArgOf(req, "dag_id"))
                 THEN AirflowExc(Str("Who hid the dig_id!?", <<>>))
                 ELSE FindTaskInstance(w, req)
        out == IF found.k # "ok" THEN found
               ELSE IF HasState(w, req) THEN Ok(Str("state", <<>>)) ELSE Ok(PyNone)
    IN  Handled(Finish(base_response, out, t), w, {})

pool_func_set(w, args_set) ==
    IF IsNone(args_set) THEN [out |-> Raise("AttributeError"), rows |-> w.pool_rows]   \* None.split()
    ELSE LET parts == SplitWs(Val(args_set))
         IN  IF Len(parts) # 3 THEN [out |-> Raise("ValueError"), rows |-> w.pool_rows]
             ELSE [out |-> Ok(Dict("pool", <<"pool", "slots", "description">>)),
                   rows |-> DictPut(w.pool_rows, parts[1], <<parts[2], parts[3]>>)]

pool_func_get(w, args_get) ==
    IF args_get \in DOMAIN w.pool_rows
    THEN [out |-> Ok(Dict("pool", <<"pool", "slots", "description">>)), rows |-> w.pool_rows]
    ELSE [out |-> AirflowExc(Str("The %s record does not exist", args_get)), rows |-> w.pool_rows]

\* func_delete is defined by the code and never called.
pool_func_delete(w, args_delete) ==
    IF args_delete \in DOMAIN w.pool_rows
    THEN [out |-> Ok(PyNone),
          rows |-> [k \in DOMAIN w.pool_rows \ {args_delete} |-> w.pool_rows[k]]]
    ELSE [out |-> AirflowExc(Str("The %s record does not exist", args_delete)), rows |-> w.pool_rows]

\* pool: the delete branch calls func_set.
pool(w, req, base_response, t) ==
    LET args_set == ArgOf(req, "set")
        args_get == ArgOf(req, "get")
        args_delete == ArgOf(req, "delete")
        r == IF TruthyStr(args_set) THEN pool_func_set(w, args_set)
             ELSE IF TruthyStr(args_get) THEN pool_func_get(w, Val(args_get))
             ELSE IF TruthyStr(args_delete) THEN pool_func_set(w, args_set)
             ELSE [out |-> AirflowExc(Str("No pool named found", <<>>)), rows |-> w.pool_rows]
    IN  Handled(Finish(base_response, r.out, t), [w EXCEPT !.pool_rows = r.rows],
                {SessionOpen, SessionClose})

clear_func_date(req) ==
    LET start_date == ArgOf(req, "start_date")
        end_date == ArgOf(req, "end_date")
    IN  IF TruthyStr(start_date) /\ ~Parses(Val(start_date))
        THEN AirflowExc(s_msg("start", Val(start_date)))
        ELSE IF TruthyStr(end_date) /\ ~Parses(Val(end_date))
        THEN AirflowExc(s_msg("end_date", Val(end_date)))
        ELSE Ok(PyNone)

\* clear: dag.clear counts the task instances cleared; a workflow has task
\* instances when it has runs.
clear(w, req, base_response, t) ==
    LET dag_id == ArgOf(req, "dag_id")
        dag == get_dag(DagBag(w, ArgOf(req, "subdir")), Val(dag_id))
        dates == clear_func_date(req)
        out == IF ~TruthyStr(dag_id) THEN AirflowExc(Str("Who hid the dig_id!?", <<>>))
               ELSE IF TruthyStr(ArgOf(req, "task_regex")) /\ IsNone(dag)
               THEN Raise("AttributeError")
               ELSE IF dates.k # "ok" THEN dates
               ELSE IF IsNone(dag) THEN Raise("AttributeError")
               ELSE IF RunsOf(w, Val(dag)) # {}
               THEN Ok(Str("%s task instances have been cleared", <<"count">>))
               ELSE AirflowExc(Str("No task instances to clear", <<>>))
    IN  Handled(Finish(base_response, out, t), w,
                IF out.k = "ok" THEN {<<"task", "cleared">>} ELSE {})

\* str.endswith
EndsWith(s, suffix) ==
    Len(s) >= Len(suffix) /\ SubSeq(s, Len(s) - Len(suffix) + 1, Len(s)) = suffix

\* func_file that saves a python file whether or not one of that name exists.
deploy_dag_func_file_overwriting(w, dag_file, force) ==
    IF IsNone(dag_file) \/ Val(dag_file) = EmptyStr
    THEN [out |-> AirflowExc(Str("The dag_file argument wasn't provided", <<>>)), files |-> w.dag_files]
    ELSE IF EndsWith(Val(dag_file), PyExt)
    THEN [out |-> Ok(PyNone), files |-> w.dag_files \cup {Val(dag_file)}]
    ELSE [out |-> AirflowExc(Str("dag_file is not a *.py file", <<>>)), files |-> w.dag_files]

\* deploy_dag.func_file: an AirflowException, or the DAGs folder after the save.
deploy_dag_func_file(w, dag_file, force) ==
    IF IsNone(dag_file) \/ Val(dag_file) = EmptyStr
    THEN [out |-> AirflowExc(Str("The dag_file argument wasn't provided", <<>>)), files |-> w.dag_files]
    ELSE IF EndsWith(Val(dag_file), PyExt)
    THEN IF Val(dag_file) \in w.dag_files /\ ~force
         THEN [out |-> AirflowExc(Str("The file '%s' already exists on host '%s'", Val(dag_file))),
               files |-> w.dag_files]
         ELSE [out |-> Ok(PyNone), files |-> w.dag_files \cup {Val(dag_file)}]
    ELSE [out |-> AirflowExc(Str("dag_file is not a *.py file", <<>>)), files |-> w.dag_files]

\* deploy_dag.func_imp: the warning, the DagModel rows and the session steps.
deploy_dag_func_imp(w, dag_file, pause_, unpause_) ==
    IF pause_ /\ unpause_
    THEN [warning |-> Str("Both options pause and unpause were given.", <<>>),
          rows |-> w.dag_models, steps |-> {}]
    ELSE IF pause_ \/ unpause_
    THEN IF dag_file \notin DOMAIN DagOfFile
         THEN [warning |-> Str("Failed to set the state (pause, unpause) of the DAG: %s", <<"AttributeError">>),
               rows |-> w.dag_models, steps |-> {}]
         ELSE LET r == set_is_paused(w, pause_, Some(DagOfFile[dag_file]), None)
              IN  [warning |-> IF r.out.k = "ok" THEN PyNone
                               ELSE Str("Failed to set the state (pause, unpause) of the DAG: %s", <<r.out.k>>),
                   rows |-> r.rows, steps |-> r.steps]
    ELSE [warning |-> PyNone, rows |-> w.dag_models, steps |-> {}]

deploy_dag(w, req, base_response, t) ==
    LET dag_file == DictGet(req.files, "dag_file")
        force == "force" \in DOMAIN req.form
        pause_ == "pause" \in DOMAIN req.form
        unpause_ == "unpause" \in DOMAIN req.form
        saved == deploy_dag_func_file(w, dag_file, force)
        w1 == [w EXCEPT !.dag_files = saved.files]
    IN  IF saved.out.k # "ok"
        THEN Handled(Finish(base_response, saved.out, t), w, {})
        ELSE LET imp == deploy_dag_func_imp(w1, Val(dag_file), pause_, unpause_)
             IN  Handled(get_200_response(base_response,
                             Str("DAG File [%s] has been uploaded", Val(dag_file)),
                             <<>>, imp.warning, t),
                         [w1 EXCEPT !.dag_models = imp.rows],
                         imp.steps \cup {<<"save", "dag_file">>})

\* refresh_dag: any failure of the query part becomes an AirflowException.
refresh_dag(w, req, base_response, t) ==
    LET dag_id == ArgOf(req, "dag_id")
        out == IF IsNone(dag_id) \/ Val(dag_id) = EmptyStr
               THEN AirflowExc(Str("dag_id should be provided", <<>>))
               ELSE IF HasSpace(Val(dag_id))
               THEN AirflowExc(Str("dag_id contains spaces and is therefore an illegal argument", <<>>))
               ELSE IF Val(dag_id) \notin DOMAIN w.dag_models   \* orm_dag.to_json() on None
               THEN AirflowExc(Str("An error occurred while trying to Refresh the DAG '%s': %s", Val(dag_id)))
               ELSE Ok(Dict("refresh", <<"message", "detail">>))
        opened == ~(IsNone(dag_id) \/ Val(dag_id) = EmptyStr) /\ ~HasSpace(Val(dag_id))
    IN  Handled(Finish(base_response, out, t), w,
                IF opened THEN {SessionOpen, SessionClose} ELSE {})

-----------------------------------------------------------------------------
(* The generic command line *)

\* A token of the command vector: its kind and its text.
Tok(kind, text) == [kind |-> kind, text |-> text]
FlagTok(name) == Tok("flag", <<"--", name>>)
\* An unfilled slot of end_arguments holds the integer 0.
ZeroTok == Tok("int", <<"0">>)

\* The index of the first " " of s at or after i, or Len(s) + 1.
RECURSIVE NextBlank(_, _)
NextBlank(s, i) == IF i > Len(s) \/ s[i] = " " THEN i ELSE NextBlank(s, i + 1)

\* str.split(" "): the pieces between single blanks, empty pieces included.
RECURSIVE SplitBlank(_)
SplitBlank(s) ==
    LET n == NextBlank(s, 1)
    IN  IF n > Len(s) THEN <<s>>
        ELSE <<SubSeq(s, 1, n - 1)>> \o SplitBlank(SubSeq(s, n + 1, Len(s)))

ValueToks(pieces) == [i \in DOMAIN pieces |-> Tok("value", pieces[i])]

RECURSIVE MaxEndPosition(_)
MaxEndPosition(arguments) ==
    IF arguments = <<>> THEN 0
    ELSE LET rest == MaxEndPosition(Tail(arguments))
         IN  IF Head(arguments).cli_end_position > rest
             THEN Head(arguments).cli_end_position ELSE rest

\* AssembleArguments that puts a positional value into the first slot of
\* end_arguments that is still free, whatever position it declares.
RECURSIVE AssembleArguments_first_free(_, _, _)
AssembleArguments_first_free(arguments, req, st) ==
    IF arguments = <<>> THEN st
    ELSE LET argument == Head(arguments)
             argument_value == ArgOf(req, argument.name)
             free == {i \in DOMAIN st.ends : st.ends[i] = ZeroTok}
             st1 == IF IsNone(argument_value) THEN st
                    ELSE IF argument.cli_end_position # 0
                    THEN [st EXCEPT !.ends[CHOOSE i \in free : \A j \in free : i <= j] =
                                        Tok("value", Val(argument_value))]
                    ELSE IF ~argument.checkbox
                    THEN [st EXCEPT !.cmd = st.cmd \o <<FlagTok(argument.name)>>
                                               \o ValueToks(SplitBlank(Val(argument_value)))]
                    ELSE [st EXCEPT !.cmd = st.cmd \o <<FlagTok(argument.name)>>]
         IN  AssembleArguments_first_free(Tail(arguments), req, st1)

\* The loop over api_metadata["arguments"] (lines 640-654): st is
\* [cmd, ends], the vector so far and end_arguments.
RECURSIVE AssembleArguments(_, _, _)
AssembleArguments(arguments, req, st) ==
    IF arguments = <<>> THEN st
    ELSE LET argument == Head(arguments)
             argument_value == ArgOf(req, argument.name)
             st1 == IF IsNone(argument_value) THEN st
                    ELSE IF argument.cli_end_position # 0
                    THEN [st EXCEPT !.ends[argument.cli_end_position] =
                                        Tok("value", Val(argument_value))]
                    ELSE IF ~argument.checkbox
                    THEN [st EXCEPT !.cmd = st.cmd \o <<FlagTok(argument.name)>>
                                               \o ValueToks(SplitBlank(Val(argument_value)))]
                    ELSE [st EXCEPT !.cmd = st.cmd \o <<FlagTok(argument.name)>>]
         IN  AssembleArguments(Tail(arguments), req, st1)

\* AssembleFixed that leaves out a fixed argument whose value is empty.
RECURSIVE AssembleFixed_nonempty(_, _)
AssembleFixed_nonempty(fixed_arguments, cmd) ==
    IF fixed_arguments = <<>> THEN cmd
    ELSE LET f == Head(fixed_arguments)
             toks == IF f.fixed_value # EmptyStr
                     THEN <<FlagTok(f.name)>> \o ValueToks(SplitBlank(f.fixed_value))
                     ELSE <<>>
         IN  AssembleFixed_nonempty(Tail(fixed_arguments), cmd \o toks)

\* The loop over fixed_arguments (lines 657-664).
RECURSIVE AssembleFixed(_, _)
AssembleFixed(fixed_arguments, cmd) ==
    IF fixed_arguments = <<>> THEN cmd
    ELSE LET f == Head(fixed_arguments)
             toks == IF f.fixed_value # EmptyStr
                     THEN <<FlagTok(f.name)>> \o ValueToks(SplitBlank(f.fixed_value))
                     ELSE <<FlagTok(f.name)>>
         IN  AssembleFixed(Tail(fixed_arguments), cmd \o toks)

\* airflow_cmd_split that redirects the output whether or not the request
\* names a log file.
airflow_cmd_split_always_redirect(api_metadata, req) ==
    LET largest_end_argument_value == MaxEndPosition(api_metadata.arguments)
        start == [cmd |-> <<Tok("word", <<"airflow">>), Tok("word", <<api_metadata.name>>)>>,
                  ends |-> [i \in 1..largest_end_argument_value |-> ZeroTok]]
        st == AssembleArguments(api_metadata.arguments, req, start)
        cmd == AssembleFixed(api_metadata.fixed_arguments, st.cmd) \o st.ends
    IN  IF api_metadata.background_mode
        THEN cmd \o <<Tok("redirect", <<">> ", "airflow_base_log_folder", "/",
                                        api_metadata.name, ".log">>),
                      Tok("word", <<"&">>)>>
        ELSE cmd

\* airflow_cmd_split as execute_cli assembles it (lines 629-677).
airflow_cmd_split(api_metadata, req) ==
    LET largest_end_argument_value == MaxEndPosition(api_metadata.arguments)
        start == [cmd |-> <<Tok("word", <<"airflow">>), Tok("word", <<api_metadata.name>>)>>,
                  ends |-> [i \in 1..largest_end_argument_value |-> ZeroTok]]
        st == AssembleArguments(api_metadata.arguments, req, start)
        cmd == AssembleFixed(api_metadata.fixed_arguments, st.cmd) \o st.ends
    IN  IF api_metadata.background_mode
        THEN (IF IsNone(ArgOf(req, "log-file"))
              THEN cmd \o <<Tok("redirect", <<">> ", "airflow_base_log_folder", "/",
                                              api_metadata.name, ".log">>)>>
              ELSE cmd)
             \o <<Tok("word", <<"&">>)>>
        ELSE cmd

\* The process output dict of get_empty_process_output, with these texts.
ProcessOutput(stderr, stdin, stdout) == Dict("process_output", <<stderr, stdin, stdout>>)
StderrOf(output) == output.arg[1]
StdinOf(output) == output.arg[2]
StdoutOf(output) == output.arg[3]

\* REST_API.get_empty_process_output
get_empty_process_output == ProcessOutput(EmptyStr, EmptyStr, EmptyStr)

\* str(n) of an integer.
DecimalDigits == <<"0", "1", "2", "3", "4", "5", "6", "7", "8", "9">>
RECURSIVE ToStr(_)
ToStr(n) ==
    IF n < 0 THEN <<"-">> \o ToStr(0 - n)
    ELSE IF n < 10 THEN <<DecimalDigits[n + 1]>>
    ELSE ToStr(n \div 10) \o <<DecimalDigits[(n % 10) + 1]>>

\* What os.system may return for a launched command line: the wait status
\* of the shell (exit 0, exit 1, command not found).
ExitStatuses == {0, 256, 32512}

ExitCodePrefix == <<"e", "x", "i", "t", "_", "c", "o", "d", "e", ":", " ">>

\* execute_cli_command_background_mode that reports the status of the launch
\* as an error text.
execute_cli_command_background_mode_stderr(airflow_cmd, exit_code) ==
    ProcessOutput(ExitCodePrefix \o ToStr(exit_code), EmptyStr, EmptyStr)

\* REST_API.execute_cli_command_background_mode, os.system having returned
\* exit_code.
execute_cli_command_background_mode(airflow_cmd, exit_code) ==
    ProcessOutput(EmptyStr, EmptyStr, ExitCodePrefix \o ToStr(exit_code))

\* The index of the first "\n" of s at or after i, or Len(s) + 1.
RECURSIVE NextNewline(_, _)
NextNewline(s, i) == IF i > Len(s) \/ s[i] = "\n" THEN i ELSE NextNewline(s, i + 1)

\* str.split("\n")
RECURSIVE SplitLines(_)
SplitLines(s) ==
    LET n == NextNewline(s, 1)
    IN  IF n > Len(s) THEN <<s>>
        ELSE <<SubSeq(s, 1, n - 1)>> \o SplitLines(SubSeq(s, n + 1, Len(s)))

\* "\n".join(lines)
RECURSIVE JoinLines(_)
JoinLines(lines) ==
    IF lines = <<>> THEN EmptyStr
    ELSE IF Len(lines) = 1 THEN lines[1]
    ELSE lines[1] \o <<"\n">> \o JoinLines(Tail(lines))

\* content.startswith("[")
StartsWithBracket(content) == content # <<>> /\ content[1] = "["

\* content_to_remove_greatest_index after the loop of lines 753-755: the
\* 0-based index of the last line that starts with "[", 0 when there is none.
GreatestBracketIndex(new_stdout_array) ==
    LET hits == {i \in DOMAIN new_stdout_array : StartsWithBracket(new_stdout_array[i])}
    IN  IF hits = {} THEN 0 ELSE (CHOOSE i \in hits : \A j \in hits : j <= i) - 1

\* REST_API.filter_loading_messages
filter_loading_messages(output) ==
    LET new_stdout_array == SplitLines(StdoutOf(output))
        content_to_remove_greatest_index == GreatestBracketIndex(new_stdout_array) + 1
    IN  IF Len(new_stdout_array) > content_to_remove_greatest_index
        THEN ProcessOutput(StderrOf(output), StdinOf(output),
                 JoinLines(SubSeq(new_stdout_array, content_to_remove_greatest_index + 1,
                                  Len(new_stdout_array))))
        ELSE output

\* The config option FILTER_LOADING_MESSAGES_IN_CLI_RESPONSE; True when the
\* option is not set.
filter_loading_messages_in_cli_response == TRUE

\* execute_cli below the handler lookup (lines 629-696).  " ".join raises
\* TypeError when a slot of end_arguments is still 0.  w.exit_status is what
\* os.system returns for the command; w.child is what a child started by
\* Popen has written when it has exited and its pipes are read.
execute_generic_cli(w, req, base_response, api_metadata, t) ==
    LET cmd == airflow_cmd_split(api_metadata, req)
        raw == IF api_metadata.background_mode
               THEN execute_cli_command_background_mode(cmd, w.exit_status)
               ELSE ProcessOutput(w.child.stderr, EmptyStr, w.child.stdout)
        output == IF filter_loading_messages_in_cli_response
                  THEN filter_loading_messages(raw) ELSE raw
    IN  IF \E i \in DOMAIN cmd : cmd[i] = ZeroTok
        THEN Handled(Unhandled("TypeError"), w, {<<"assemble", api_metadata.name>>})
        ELSE Handled(get_200_response(base_response, output, cmd, PyNone, t), w,
                     {<<"assemble", api_metadata.name>>,
                      <<"spawn", IF api_metadata.background_mode THEN "background" ELSE "sync">>})

-----------------------------------------------------------------------------
(* Dispatch, validation and authentication *)

\* The attributes of the view that getattr(self, name, None) finds for the
\* name of an operation: the handlers above, and BaseView.render.
ViewAttributes ==
    {"version", "rest_api_plugin_version", "render", "variables", "connections", "pause",
     "unpause", "task_failed_deps", "trigger_dag", "test", "dag_state", "run", "list_tasks",
     "backfill", "list_dags", "task_state", "pool", "clear", "deploy_dag", "refresh_dag"}

CallHandler(name, w, req, b, t) ==
    CASE name = "version" -> version(w, req, b, t)
      [] name = "rest_api_plugin_version" -> rest_api_plugin_version(w, req, b, t)
      [] name = "render" -> render(w, req, b, t)
      [] name = "variables" -> variables(w, req, b, t)
      [] name = "connections" -> connections(w, req, b, t)
      [] name = "pause" -> pause(w, req, b, t)
      [] name = "unpause" -> unpause(w, req, b, t)
      [] name = "task_failed_deps" -> task_failed_deps(w, req, b, t)
      [] name = "trigger_dag" -> trigger_dag(w, req, b, t)
      [] name = "test" -> test(w, req, b, t)
      [] name = "dag_state" -> dag_state(w, req, b, t)
      [] name = "run" -> run(w, req, b, t)
      [] name = "list_tasks" -> list_tasks(w, req, b, t)
      [] name = "backfill" -> backfill(w, req, b, t)
      [] name = "list_dags" -> list_dags(w, req, b, t)
      [] name = "task_state" -> task_state(w, req, b, t)
      [] name = "pool" -> pool(w, req, b, t)
      [] name = "clear" -> clear(w, req, b, t)
      [] name = "deploy_dag" -> deploy_dag(w, req, b, t)
      [] OTHER -> refresh_dag(w, req, b, t)

\* The same outcome, with these steps added to what was done.
AlsoDid(h, more) == [h EXCEPT !.steps = @ \cup more]

\* REST_API.execute_cli
execute_cli(w, req, base_response, api_metadata, t) ==
    IF api_metadata.name \in ViewAttributes
    THEN AlsoDid(CallHandler(api_metadata.name, w, req, base_response, t),
                 {<<"handler", api_metadata.name>>})
    ELSE execute_generic_cli(w, req, base_response, api_metadata, t)

\* REST_API.is_arg_not_provided
is_arg_not_provided(arg) == IsNone(arg) \/ Val(arg) = EmptyStr

\* missing_required_arguments that stops at the first missing argument.
missing_required_arguments_fail_fast(api_metadata, req) ==
    LET missing == SelectSeq(api_metadata.arguments,
                       LAMBDA argument : argument.required
                                         /\ is_arg_not_provided(ArgOf(req, argument.name)))
    IN  IF missing = <<>> THEN <<>> ELSE <<missing[1].name>>

\* The names of the required arguments that are not provided, in the order
\* of the descriptor (lines 595-602).
missing_required_arguments(api_metadata, req) ==
    LET missing == SelectSeq(api_metadata.arguments,
                       LAMBDA argument : argument.required
                                         /\ is_arg_not_provided(ArgOf(req, argument.name)))
    IN  [i \in DOMAIN missing |-> missing[i].name]

\* validated_dag_id with the assignment of line 604 lost: no dag_id reaches
\* the catalog lookup.
validated_dag_id_unset(api_metadata, req) == None

\* dag_id as the loop leaves it (lines 596, 603-604).
validated_dag_id(api_metadata, req) ==
    IF "dag_id" \in ArgNamesOf(api_metadata) /\ ~IsNone(ArgOf(req, "dag_id"))
    THEN Some(Strip(Val(ArgOf(req, "dag_id"))))
    ELSE None

\* requested_api without lower().
requested_api_cased(req) ==
    IF IsNone(ArgOf(req, "api")) THEN None ELSE Some(Strip(Val(ArgOf(req, "api"))))

\* The api parameter as lines 575-577 read it.
requested_api(req) ==
    IF IsNone(ArgOf(req, "api")) THEN None ELSE Some(Lower(Strip(Val(ArgOf(req, "api")))))

\* The descriptors whose name is the requested one (lines 586-589); the loop
\* keeps the last.
matching_apis(api) == {i \in DOMAIN apis_metadata : apis_metadata[i].chars = api}
Last(S) == CHOOSE i \in S : \A j \in S : j <= i

\* api that looks the dag_id up in the catalog before it reports the missing
\* required arguments.
api_catalog_first(w, req, t) ==
    LET base_response == get_base_response(req, default_call_time, TRUE)
        api_ == requested_api(req)
        entered == {<<"api", "entered">>}
    IN  IF is_arg_not_provided(api_)
        THEN Handled(get_400_error_response(base_response, Str("API should be provided", <<>>), t),
                     w, entered)
        ELSE IF matching_apis(Val(api_)) = {}
        THEN Handled(get_400_error_response(base_response, Str("API '%s' was not found", Val(api_)), t),
                     w, entered)
        ELSE LET api_metadata == apis_metadata[Last(matching_apis(Val(api_)))]
                 missing == missing_required_arguments(api_metadata, req)
                 dag_id == validated_dag_id(api_metadata, req)
                 checked == entered \cup {<<"arguments", api_metadata.name>>}
             IN  IF ~IsNone(dag_id) /\ Val(dag_id) \notin DagBag(w, None)
                 THEN Handled(get_400_error_response(base_response,
                                  Str("The DAG ID '%s' does not exist", Val(dag_id)), t),
                              w, checked \cup {<<"dagbag", "lookup">>})
                 ELSE IF Len(missing) > 0
                 THEN Handled(get_400_error_response(base_response,
                                  Str("The argument(s) %s are required", missing), t),
                              w, checked \cup {<<"dagbag", "lookup">>})
                 ELSE AlsoDid(execute_cli(w, req, base_response, api_metadata, t),
                              checked \cup {<<"dagbag", "lookup">>})

\* REST_API.api
api(w, req, t) ==
    LET base_response == get_base_response(req, default_call_time, TRUE)
        api_ == requested_api(req)
        entered == {<<"api", "entered">>}
    IN  IF is_arg_not_provided(api_)
        THEN Handled(get_400_error_response(base_response, Str("API should be provided", <<>>), t),
                     w, entered)
        ELSE IF matching_apis(Val(api_)) = {}
        THEN Handled(get_400_error_response(base_response, Str("API '%s' was not found", Val(api_)), t),
                     w, entered)
        ELSE LET api_metadata == apis_metadata[Last(matching_apis(Val(api_)))]
                 missing == missing_required_arguments(api_metadata, req)
                 dag_id == validated_dag_id(api_metadata, req)
                 checked == entered \cup {<<"arguments", api_metadata.name>>}
             IN  IF Len(missing) > 0
                 THEN Handled(get_400_error_response(base_response,
                                  Str("The argument(s) %s are required", missing), t),
                              w, checked)
                 ELSE IF ~IsNone(dag_id) /\ Val(dag_id) \notin DagBag(w, None)
                 THEN Handled(get_400_error_response(base_response,
                                  Str("The DAG ID '%s' does not exist", Val(dag_id)), t),
                              w, checked \cup {<<"dagbag", "lookup">>})
                 ELSE AlsoDid(execute_cli(w, req, base_response, api_metadata, t),
                              checked \cup {<<"dagbag", "lookup">>})

\* secure_check that compares the header only when the request carries one.
secure_check_header_optional(w, req, t) ==
    IF ~IsNone(airflow_expected_http_token) /\ Val(airflow_expected_http_token) # ""
       /\ ~IsNone(req.token) /\ req.token # airflow_expected_http_token
    THEN Handled(get_403_error_response(get_base_response(req, default_call_time, FALSE),
                                        Str("Token Authentication Failed", <<>>), t),
                 w, {<<"token", "rejected">>})
    ELSE api(w, req, t)

\* http_token_secure.secure_check wrapped around REST_API.api
secure_check(w, req, t) ==
    IF ~IsNone(airflow_expected_http_token) /\ Val(airflow_expected_http_token) # ""
       /\ req.token # airflow_expected_http_token
    THEN Handled(get_403_error_response(get_base_response(req, default_call_time, FALSE),
                                        Str("Token Authentication Failed", <<>>), t),
                 w, {<<"token", "rejected">>})
    ELSE api(w, req, t)

-----------------------------------------------------------------------------
(* The state machine *)

\* Nothing is being assembled, filtered or executed.
NoAssembly == [api |-> 0, query |-> <<>>, cmd |-> <<>>, done |-> FALSE]
NoFiltering == [input |-> EmptyStr, once |-> EmptyStr, stdout |-> EmptyStr, passes |-> 0]
Streams == {"stdout", "stderr"}
NoProcess ==
    [parent |-> "none", child |-> "none",
     pending |-> [s \in Streams |-> 0], pipe |-> [s \in Streams |-> 0],
     written |-> [s \in Streams |-> 0], output |-> [s \in Streams |-> 0]]

Init ==
    /\ now = 0
    /\ default_call_time = 0
    /\ airflow_expected_http_token \in {None, Some(""), Some(Secret), Some(Rotated)}
    /\ pc = "idle"
    /\ request = NoRequest
    /\ response = NoResponse
    /\ steps = {}
    /\ arrived = 0
    /\ last_response_time = None
    /\ dag_files = {D1Py}
    /\ dag_models \in {(D1 :> FALSE), EmptyDict}
    /\ variable_rows = (K1 :> Some(<<"b">>))
    /\ connection_rows = {C1}
    /\ pool_rows = EmptyDict
    /\ dag_runs = {}
    /\ launch_status = None
    /\ configuration = {}
    /\ root_handlers = AirflowHandlers
    /\ assembly = NoAssembly
    /\ filtering = NoFiltering
    /\ process = NoProcess
    /\ before = World

\* A request arrives and the endpoint serves it: secure_check, api, the
\* handler or command, the response.
Serve(req, exit_status) ==
    /\ pc = "idle"
    /\ now < MaxTime
    /\ \E done \in {secure_check(Host(exit_status), req, now + 1)} :
           /\ response' = done.resp
           /\ steps' = done.steps
           /\ dag_files' = done.world.dag_files
           /\ dag_models' = done.world.dag_models
           /\ variable_rows' = done.world.variable_rows
           /\ connection_rows' = done.world.connection_rows
           /\ pool_rows' = done.world.pool_rows
           /\ dag_runs' = done.world.dag_runs
           /\ configuration' = done.world.configuration
           /\ root_handlers' = done.world.root_handlers
           /\ launch_status' = IF <<"spawn", "background">> \in done.steps
                               THEN Some(exit_status) ELSE None
    /\ request' = req
    /\ arrived' = now
    /\ before' = World
    /\ now' = now + 1
    /\ pc' = "responded"
    /\ UNCHANGED <<default_call_time, airflow_expected_http_token, last_response_time,
                   assembly, filtering, process>>

HandleRequest ==
    /\ pc = "idle"
    /\ now < MaxTime
    /\ \E req \in Requests : \E exit_status \in ExitStatuses : Serve(req, exit_status)

\* The response is sent; the request-scoped objects are dropped.
Done ==
    /\ pc = "responded"
    /\ pc' = "idle"
    /\ last_response_time' = Some(now)
    /\ request' = NoRequest
    /\ response' = NoResponse
    /\ steps' = {}
    /\ launch_status' = None
    /\ arrived' = now
    /\ before' = World
    /\ UNCHANGED <<now, default_call_time, airflow_expected_http_token, dag_files,
                   dag_models, variable_rows, connection_rows, pool_rows, dag_runs,
                   configuration, root_handlers, assembly, filtering, process>>

Next == HandleRequest \/ Done

Spec == Init /\ [][Next]_vars


-----------------------------------------------------------------------------
(* The command vector as a function of the descriptor and the query string *)

\* The endpoint with no request in hand and the stores as installed.
Idle ==
    /\ now = 0
    /\ default_call_time = 0
    /\ airflow_expected_http_token = None
    /\ pc = "idle"
    /\ request = NoRequest
    /\ response = NoResponse
    /\ steps = {}
    /\ arrived = 0
    /\ last_response_time = None
    /\ dag_files = {D1Py}
    /\ dag_models = (D1 :> FALSE)
    /\ variable_rows = (K1 :> Some(<<"b">>))
    /\ connection_rows = {C1}
    /\ pool_rows = EmptyDict
    /\ dag_runs = {}
    /\ launch_status = None
    /\ configuration = {}
    /\ root_handlers = AirflowHandlers
    /\ before = World

endpoint_vars ==
    <<now, default_call_time, airflow_expected_http_token, pc, request, response, steps,
      arrived, before, last_response_time, dag_files, dag_models, variable_rows,
      connection_rows, pool_rows, dag_runs, launch_status, configuration,
      root_handlers>>

DoubleBlank == <<"a", " ", " ", "b">>
Tabbed == <<"a", "\t", "b">>
EdgeBlanks == <<" ", "a", " ">>

\* The values tried for an argument in a query string: those of the
\* requests, and for an argument that is split into tokens also values with
\* two blanks in a row, a tab, blanks at the ends, and the empty value.
QueryValues(m, name) ==
    ArgValues(m.name, name)
    \cup (IF \E i \in DOMAIN m.arguments :
                m.arguments[i].name = name /\ ~m.arguments[i].checkbox
                /\ m.arguments[i].cli_end_position = 0
          THEN {DoubleBlank, Tabbed, EdgeBlanks, EmptyStr} ELSE {})

RECURSIVE QueryMaps(_, _)
QueryMaps(m, names) ==
    IF names = {} THEN {EmptyDict}
    ELSE LET n == CHOOSE x \in names : TRUE
         IN  {DictPut(f, n, v) : f \in QueryMaps(m, names \ {n}), v \in QueryValues(m, n)}

\* The parameters tried for a descriptor: any of the required arguments,
\* with at most MaxOptional of the others; log-file also where the
\* descriptor does not declare it.
QueryChoices(m) ==
    UNION {QueryMaps(m, rs \cup os) :
             rs \in SUBSET RequiredNames(m),
             os \in {x \in SUBSET (OptionalNames(m) \cup {"log-file"}) :
                        Cardinality(x) <= MaxOptional}}

RECURSIVE Orders(_)
Orders(S) == IF S = {} THEN {<<>>} ELSE UNION {{<<x>> \o p : p \in Orders(S \ {x})} : x \in S}

\* The query strings that carry the parameters a, in every order.
QueryStrings(a) == {[i \in DOMAIN p |-> <<p[i], a[p[i]]>>] : p \in Orders(DOMAIN a)}

\* request.args of a query string; request.args.get(name) is the first
\* value given for name.
QueryArgs(query) ==
    [n \in {query[i][1] : i \in DOMAIN query} |->
        query[CHOOSE i \in DOMAIN query :
                 query[i][1] = n /\ \A j \in 1..(i - 1) : query[j][1] # n][2]]

InitAssemble ==
    /\ Idle
    /\ filtering = NoFiltering
    /\ process = NoProcess
    /\ assembly \in UNION {{[api |-> i, query |-> q, cmd |-> <<>>, done |-> FALSE] :
                               q \in UNION {QueryStrings(a) : a \in QueryChoices(apis_metadata[i])}} :
                           i \in DOMAIN apis_metadata}

\* execute_cli assembles the command vector of the descriptor for the query
\* string (lines 629-677).
AssembleCommand ==
    /\ ~assembly.done
    /\ assembly' = [assembly EXCEPT
                       !.cmd = airflow_cmd_split(apis_metadata[assembly.api],
                                                 [args |-> QueryArgs(assembly.query)]),
                       !.done = TRUE]
    /\ UNCHANGED <<endpoint_vars, filtering, process>>

NextAssemble == AssembleCommand

SpecAssemble == InitAssemble /\ [][NextAssemble]_vars

-----------------------------------------------------------------------------
(* filter_loading_messages as a function of the captured stdout *)

BracketLine == <<"[", "t", "]">>
PlainLine == <<"o">>
EmptyLine == <<>>

\* The sequences of 1 to n lines.
RECURSIVE LineSeqs(_)
LineSeqs(n) ==
    IF n = 0 THEN {}
    ELSE {<<l>> : l \in {BracketLine, PlainLine, EmptyLine}}
         \cup LineSeqs(n - 1)
         \cup {ls \o <<l>> : ls \in LineSeqs(n - 1), l \in {BracketLine, PlainLine, EmptyLine}}

InitFilter ==
    /\ Idle
    /\ assembly = NoAssembly
    /\ process = NoProcess
    /\ filtering \in {[input |-> JoinLines(ls), once |-> EmptyStr, stdout |-> JoinLines(ls),
                       passes |-> 0] : ls \in LineSeqs(MaxLines)}

\* filter_loading_messages is applied to the output whose stdout is
\* filtering.stdout; once keeps the result of the first application.
FilterOutput ==
    /\ filtering.passes < MaxPasses
    /\ \E filtered \in {StdoutOf(filter_loading_messages(
                            ProcessOutput(EmptyStr, EmptyStr, filtering.stdout)))} :
           filtering' = [filtering EXCEPT
                            !.stdout = filtered,
                            !.once = IF filtering.passes = 0 THEN filtered ELSE @,
                            !.passes = @ + 1]
    /\ UNCHANGED <<endpoint_vars, assembly, process>>

NextFilter == FilterOutput

SpecFilter == InitFilter /\ [][NextFilter]_vars

-----------------------------------------------------------------------------
(* execute_cli_command and the child process it starts *)

\* The streams are counted in bytes: pending is what the child has still to
\* write, pipe what is buffered and unread, written what the child has
\* written so far, output what collect_process_output has read.
InitExec ==
    /\ Idle
    /\ assembly = NoAssembly
    /\ filtering = NoFiltering
    /\ process \in {[NoProcess EXCEPT !.parent = "popen",
                                      !.pending = [stdout |-> a, stderr |-> b]] :
                       a \in 0..MaxOutput, b \in 0..MaxOutput}

\* subprocess.Popen(..., stdout=PIPE, stderr=PIPE) starts the child; the
\* parent goes on to process.wait() (lines 711-712).
Popen ==
    /\ process.parent = "popen"
    /\ process' = [process EXCEPT !.parent = "wait", !.child = "running"]
    /\ UNCHANGED <<endpoint_vars, assembly, filtering>>

\* subprocess.Popen raises OSError: the program cannot be started.
PopenRaises ==
    /\ process.parent = "popen"
    /\ process' = [process EXCEPT !.parent = "raised"]
    /\ UNCHANGED <<endpoint_vars, assembly, filtering>>

\* The child writes a byte to a stream; the write blocks while the pipe is
\* full.
ChildWrites(s) ==
    /\ process.child = "running"
    /\ process.pending[s] > 0
    /\ process.pipe[s] < PipeCapacity
    /\ process' = [process EXCEPT !.pending[s] = @ - 1, !.pipe[s] = @ + 1,
                                  !.written[s] = @ + 1]
    /\ UNCHANGED <<endpoint_vars, assembly, filtering>>

\* The child has written everything and exits.
ChildExits ==
    /\ process.child = "running"
    /\ \A s \in Streams : process.pending[s] = 0
    /\ process' = [process EXCEPT !.child = "exited"]
    /\ UNCHANGED <<endpoint_vars, assembly, filtering>>

\* process.wait() returns once the child has exited (line 712).
WaitReturns ==
    /\ process.parent = "wait"
    /\ process.child = "exited"
    /\ process' = [process EXCEPT !.parent = "collect"]
    /\ UNCHANGED <<endpoint_vars, assembly, filtering>>

\* REST_API.collect_process_output: readlines() on stderr, then on stdout,
\* reads each pipe to its end.
collect_process_output ==
    /\ process.parent = "collect"
    /\ process' = [process EXCEPT !.parent = "returned",
                                  !.output = process.pipe,
                                  !.pipe = [s \in Streams |-> 0]]
    /\ UNCHANGED <<endpoint_vars, assembly, filtering>>

NextExec ==
    \/ Popen
    \/ PopenRaises
    \/ \E s \in Streams : ChildWrites(s)
    \/ ChildExits
    \/ WaitReturns
    \/ collect_process_output

SpecExec == InitExec /\ [][NextExec]_vars
-----------------------------------------------------------------------------
(* Properties of the served request *)

Responded == pc = "responded"

\* An expected token is configured, and the request's header is absent or differs.
TokenExpected == ~IsNone(airflow_expected_http_token) /\ Val(airflow_expected_http_token) # ""
AuthRejected == TokenExpected /\ request.token # airflow_expected_http_token

\* The response is an ERROR envelope sent with this code.
IsError(code) ==
    /\ response.kind = "envelope"
    /\ response.http = code
    /\ response.body["status"] = "ERROR"
    /\ response.body["http_response_code"] = code

\* A handler or a command was dispatched for the request.
Dispatched == \E s \in steps : s[1] \in {"handler", "assemble", "spawn"}

\* The descriptors the request's api parameter names, up to letter case and
\* surrounding whitespace.
ApiParam == ArgOf(request, "api")
SelectedApis ==
    {i \in DOMAIN apis_metadata :
        ~IsNone(ApiParam) /\ Lower(Strip(Val(ApiParam))) = apis_metadata[i].chars}

\* The names, in registry order, of the required argument specs of m that have
\* no non-empty value in the request.
RequiredMissing(m) ==
    LET without == SelectSeq(m.arguments,
                       LAMBDA a : a.required /\ (a.name \notin DOMAIN request.args
                                                 \/ request.args[a.name] = EmptyStr))
    IN  [i \in DOMAIN without |-> without[i].name]

C2_EchoExactlyAfterAuth ==
    Responded =>
        IF AuthRejected
        THEN {"arguments", "post_arguments"} \cap DOMAIN response.body = {}
        ELSE /\ {"arguments", "post_arguments"} \subseteq DOMAIN response.body
             /\ response.body["arguments"] = request.args
             /\ response.body["post_arguments"] = request.form

\* C3: an api parameter that is absent, empty after trimming, or after
\* trimming and lower-casing not a registry name gets a 400 ERROR response
\* and dispatches nothing; one equal to a registry name up to letter case and
\* surrounding whitespace selects that descriptor.
C3_ApiSelection ==
    (Responded /\ ~AuthRejected) =>
        /\ (IsNone(ApiParam) \/ Strip(Val(ApiParam)) = EmptyStr \/ SelectedApis = {})
              => (IsError(400) /\ ~Dispatched)
        /\ \A i \in SelectedApis : <<"arguments", apis_metadata[i].name>> \in steps

C3_Witness ==
    /\ Responded /\ ~AuthRejected
    /\ ~IsNone(ApiParam)
    /\ Val(ApiParam) = <<" ", "P", "a", "u", "S", "E", "\t">>
    /\ <<"handler", "pause">> \in steps

\* C4: when at least one required argument spec has no non-empty value in the
\* request, the answer is a 400 ERROR response whose message lists the names
\* of all the required arguments that are missing or empty, in registry
\* order.  For the one required spec of the request body (deploy_dag's
\* dag_file) the message names that argument.
C4_AllMissingReported ==
    (Responded /\ ~AuthRejected) =>
        \A i \in SelectedApis :
            LET m == apis_metadata[i]
                bodyMissing ==
                    SelectSeq(m.post_arguments,
                        LAMBDA a : a.required /\ (a.name \notin DOMAIN request.files
                                                  \/ request.files[a.name] = EmptyStr))
            IN  /\ RequiredMissing(m) # <<>> =>
                      /\ IsError(400)
                      /\ "output" \in DOMAIN response.body
                      /\ response.body["output"] =
                            Str("The argument(s) %s are required", RequiredMissing(m))
                /\ (RequiredMissing(m) = <<>> /\ bodyMissing # <<>>) =>
                      /\ IsError(400)
                      /\ "output" \in DOMAIN response.body
                      /\ response.body["output"] =
                            Str("The dag_file argument wasn't provided", <<>>)

C4_Witness ==
    /\ Responded /\ ~AuthRejected
    /\ request.args = ("api" :> ApiNamed("run").chars) @@ ("task_id" :> T1) @@ ("dag_id" :> EmptyStr)
    /\ IsError(400)
    /\ response.body["output"].arg = <<"dag_id", "execution_date">>

\* C5: for a descriptor that declares dag_id, a request that supplies a dag_id
\* not present in the workflow catalog is answered with a 400 ERROR response
\* stating that the identifier does not exist, and nothing is dispatched.
\* (Stated for requests that pass the token check and supply every required
\* argument.)
C5_UnknownDagRejected ==
    (Responded /\ ~AuthRejected) =>
        \A i \in SelectedApis :
            ( /\ "dag_id" \in ArgNamesOf(apis_metadata[i])
              /\ RequiredMissing(apis_metadata[i]) = <<>>
              /\ "dag_id" \in DOMAIN request.args
              /\ request.args["dag_id"] \notin DagBag(before, None) )
            => /\ IsError(400)
               /\ "output" \in DOMAIN response.body
               /\ response.body["output"].text = "The DAG ID '%s' does not exist"
               /\ ~Dispatched

\* The Validator rejects the request: unknown operation, a missing required
\* argument, or a dag_id that after trimming is not in the catalog.
ValidatorRejects ==
    /\ ~AuthRejected
    /\ \/ IsNone(ApiParam)
       \/ SelectedApis = {}
       \/ \E i \in SelectedApis :
             \/ RequiredMissing(apis_metadata[i]) # <<>>
             \/ /\ "dag_id" \in ArgNamesOf(apis_metadata[i])
                /\ "dag_id" \in DOMAIN request.args
                /\ Strip(request.args["dag_id"]) \notin DagBag(before, None)

\* C6: a request rejected by the Validator leaves every external store
\* (paused state, variables, connections, pools, run history, DAG files)
\* unchanged and spawns no process nor runs a handler.
C6_RejectionChangesNothing ==
    (Responded /\ ValidatorRejects) =>
        /\ IsError(400)
        /\ World = before
        /\ ~Dispatched

C6_Witness ==
    /\ Responded /\ ValidatorRejects
    /\ request.args = ("api" :> ApiNamed("pause").chars) @@ ("dag_id" :> NoSuchDag)
    /\ before.dag_models = (D1 :> TRUE)
    /\ IsError(400)

\* C7: a failure raised inside a custom handler or during command execution
\* that the handler does not convert is answered with a 500 ERROR envelope.
C7_UncaughtAnswered500 ==
    (Responded /\ response.exc # "") => IsError(500)

\* The request makes one of the handlers the claim cites fail for a reason of
\* its own: a date that does not parse, a record that is not found.
OperationFailure ==
    LET a == request.args
    IN  \/ /\ <<"handler", "dag_state">> \in steps
           /\ "execution_date" \in DOMAIN a
           /\ a["execution_date"] # EmptyStr
           /\ (~Parses(a["execution_date"])
               \/ RunsAt(before, a["dag_id"], a["execution_date"]) = {})
        \/ /\ \E n \in {"pause", "unpause"} : <<"handler", n>> \in steps
           /\ "subdir" \notin DOMAIN a
           /\ a["dag_id"] \notin DOMAIN before.dag_models
        \/ /\ <<"handler", "connections">> \in steps
           /\ DOMAIN a = {"api", "delete", "conn_id"}
           /\ a["conn_id"] \notin before.connection_rows

\* C8: in a custom handler, an operation-specific failure ends in a 400 ERROR
\* response whose output is the error's message, never in a 200 response or
\* an unconverted exception.
C8_OperationFailureIs400 ==
    (Responded /\ OperationFailure) =>
        (IsError(400) /\ "output" \in DOMAIN response.body)

\* C9: every response envelope carries a status, an HTTP status code, a call
\* timestamp and a response timestamp; the call timestamp is the time the
\* request was received: not earlier than the response timestamp of any
\* request completed before this one arrived, and not later than this
\* request's response timestamp.
C9_CallTimeIsArrival ==
    (Responded /\ response.kind = "envelope") =>
        /\ {"status", "http_response_code", "call_time", "response_time"}
              \subseteq DOMAIN response.body
        /\ response.body["call_time"] <= response.body["response_time"]
        /\ ~IsNone(last_response_time) =>
              response.body["call_time"] >= Val(last_response_time)

\* C10: in every response envelope, status is ERROR exactly when the HTTP
\* status code is 400, 403 or 500 and OK exactly when it is 200; the
\* http_response_code of the body equals the HTTP status code returned; every
\* ERROR envelope carries its message as output.
C10_StatusMatchesCode ==
    (Responded /\ response.kind = "envelope") =>
        /\ response.body["status"] = "ERROR" <=> response.http \in {400, 403, 500}
        /\ response.body["status"] = "OK" <=> response.http = 200
        /\ response.body["http_response_code"] = response.http
        /\ response.body["status"] = "ERROR" => "output" \in DOMAIN response.body

\* C11: every success (200) response envelope includes an output field
\* holding the operation's result, whatever value the operation produced (a
\* string, a mapping or a list, an empty one included), and includes the
\* assembled command string whenever the generic command-line path was used.
C11_SuccessCarriesOutput ==
    (Responded /\ response.kind = "envelope" /\ response.http = 200
               /\ response.body["status"] = "OK") =>
        /\ "output" \in DOMAIN response.body
        /\ (\E s \in steps : s[1] = "assemble") => "airflow_cmd" \in DOMAIN response.body

\* C20: deploy_dag writes the uploaded file into the DAG directory only if
\* its name ends in .py and either no file of that name exists there or the
\* force flag is given; in every other case (no file, wrong extension,
\* existing file without force) the response is a 400 ERROR and the DAG
\* directory is unchanged.
C20_DeployWritesOnlyWhenAllowed ==
    (Responded /\ <<"handler", "deploy_dag">> \in steps) =>
        LET given == "dag_file" \in DOMAIN request.files /\ request.files["dag_file"] # EmptyStr
            allowed == /\ given
                       /\ EndsWith(request.files["dag_file"], <<".", "p", "y">>)
                       /\ (request.files["dag_file"] \notin before.dag_files
                           \/ "force" \in DOMAIN request.form)
        IN  IF allowed
            THEN /\ <<"save", "dag_file">> \in steps
                 /\ dag_files = before.dag_files \cup {request.files["dag_file"]}
            ELSE /\ IsError(400)
                 /\ <<"save", "dag_file">> \notin steps
                 /\ dag_files = before.dag_files

C20_Witness ==
    /\ Responded /\ <<"handler", "deploy_dag">> \in steps
    /\ request.files = ("dag_file" :> D1Py)
    /\ D1Py \in before.dag_files
    /\ "force" \notin DOMAIN request.form
    /\ IsError(400)


\* C19: on the generic command-line path the exit code never changes the
\* response class: whatever status the launch (or the child) returned, the
\* response is 200 with status OK; in background mode the output carries
\* the status of the launch as the text "exit_code: N" in stdout, with
\* empty stderr and stdin.
C19_ExitCodeNeverAnError ==
    (Responded /\ \E s \in steps : s[1] = "spawn") =>
        /\ response.kind = "envelope"
        /\ response.http = 200
        /\ response.body["status"] = "OK"
        /\ <<"spawn", "background">> \in steps =>
              /\ ~IsNone(launch_status)
              /\ response.body["output"].type = "dict"
              /\ response.body["output"].arg =
                    <<EmptyStr, EmptyStr,
                      ExitCodePrefix \o
                        (CASE Val(launch_status) = 0 -> <<"0">>
                           [] Val(launch_status) = 256 -> <<"2", "5", "6">>
                           [] OTHER -> <<"3", "2", "5", "1", "2">>)>>

C19_Witness ==
    /\ Responded
    /\ <<"spawn", "background">> \in steps
    /\ launch_status = Some(256)
    /\ response.http = 200
    /\ response.body["output"].arg[3] = ExitCodePrefix \o <<"2", "5", "6">>

-----------------------------------------------------------------------------
(* The command vector *)

AssembledApi == apis_metadata[assembly.api]
AssembledArgs == QueryArgs(assembly.query)
\* The number of positional slots: the largest end position declared.
BlockSize ==
    LET ps == {AssembledApi.arguments[i].cli_end_position : i \in DOMAIN AssembledApi.arguments}
    IN  IF ps = {} THEN 0 ELSE CHOOSE p \in ps : \A r \in ps : r <= p
IsDetachMarker(tok) == tok = Tok("word", <<"&">>)
IsRedirect(tok) == tok.kind = "redirect"
\* The tokens appended for background mode.
TrailerSize ==
    Cardinality({k \in DOMAIN assembly.cmd :
                    IsDetachMarker(assembly.cmd[k]) \/ IsRedirect(assembly.cmd[k])})
\* The index of the first token of the positional block.
BlockStart == Len(assembly.cmd) - TrailerSize - BlockSize + 1

\* C12: in the assembled command vector the value of each supplied argument
\* that declares end position p is the p-th token of the positional block,
\* in whatever order the query string carries the parameters, and the block
\* comes after every flag and fixed-argument token.
C12_PositionalsByDeclaredPosition ==
    assembly.done =>
        /\ BlockStart >= 3
        /\ \A i \in DOMAIN AssembledApi.arguments :
              LET argument == AssembledApi.arguments[i]
              IN  (argument.cli_end_position # 0 /\ argument.name \in DOMAIN AssembledArgs) =>
                     assembly.cmd[BlockStart + argument.cli_end_position - 1]
                        = Tok("value", AssembledArgs[argument.name])
        /\ \A k \in DOMAIN assembly.cmd : assembly.cmd[k].kind = "flag" => k < BlockStart

\* Three positional values arrive in the reverse of their positions, after
\* an optional argument.
C12_Witness ==
    /\ assembly.done
    /\ BlockSize = 3
    /\ Len(assembly.query) = 4
    /\ assembly.query[2][1] = "execution_date"
    /\ assembly.query[3][1] = "task_id"
    /\ assembly.query[4][1] = "dag_id"
    /\ assembly.cmd[BlockStart] = Tok("value", AssembledArgs["dag_id"])
    /\ assembly.cmd[BlockStart + 2] = Tok("value", AssembledArgs["execution_date"])
    /\ \E k \in 3..(BlockStart - 1) : assembly.cmd[k].kind = "flag"

\* The whitespace-separated tokens of s: the maximal runs of characters
\* that are not whitespace.
RECURSIVE WhitespaceTokens(_)
WhitespaceTokens(s) ==
    IF s = <<>> THEN <<>>
    ELSE IF IsSpace(Head(s)) THEN WhitespaceTokens(Tail(s))
    ELSE LET ends == {i \in DOMAIN s : IsSpace(s[i])}
             n == IF ends = {} THEN Len(s) + 1 ELSE CHOOSE i \in ends : \A j \in ends : i <= j
         IN  <<SubSeq(s, 1, n - 1)>> \o WhitespaceTokens(SubSeq(s, n, Len(s)))

\* The tokens the flag arguments are to contribute, in registry order.
RECURSIVE ExpectedFlagTokens(_, _)
ExpectedFlagTokens(arguments, args) ==
    IF arguments = <<>> THEN <<>>
    ELSE LET argument == Head(arguments)
             mine == IF argument.name \notin DOMAIN args \/ argument.cli_end_position # 0
                     THEN <<>>
                     ELSE IF argument.checkbox THEN <<FlagTok(argument.name)>>
                     ELSE <<FlagTok(argument.name)>>
                          \o ValueToks(WhitespaceTokens(args[argument.name]))
         IN  mine \o ExpectedFlagTokens(Tail(arguments), args)

\* C13: the assembled command vector starts with the program name and the
\* operation name, followed by, for each supplied argument without end
\* position in registry order, the token --name and then the value's
\* whitespace-separated tokens in order, or --name alone for a boolean flag.
C13_FlagsAndWhitespaceTokens ==
    assembly.done =>
        LET expected == <<Tok("word", <<"airflow">>), Tok("word", <<AssembledApi.name>>)>>
                        \o ExpectedFlagTokens(AssembledApi.arguments, AssembledArgs)
        IN  /\ Len(assembly.cmd) >= Len(expected)
            /\ SubSeq(assembly.cmd, 1, Len(expected)) = expected

\* The tokens the fixed arguments are to contribute.
RECURSIVE ExpectedFixedTokens(_)
ExpectedFixedTokens(fixed_arguments) ==
    IF fixed_arguments = <<>> THEN <<>>
    ELSE <<FlagTok(Head(fixed_arguments).name)>>
         \o ValueToks(WhitespaceTokens(Head(fixed_arguments).fixed_value))
         \o ExpectedFixedTokens(Tail(fixed_arguments))

\* C14: for a descriptor with fixed arguments, every assembled command
\* vector contains each fixed argument as --name followed by its fixed value
\* tokens (none for an empty value), whatever the query string supplies,
\* after all flag arguments of the request and before the positional block.
C14_FixedArgumentsAlwaysAppended ==
    (assembly.done /\ AssembledApi.fixed_arguments # <<>>) =>
        LET fixed == ExpectedFixedTokens(AssembledApi.fixed_arguments)
            first == BlockStart - Len(fixed)
        IN  /\ first >= 3
            /\ SubSeq(assembly.cmd, first, BlockStart - 1) = fixed
            /\ \A i \in DOMAIN AssembledApi.arguments :
                  LET argument == AssembledApi.arguments[i]
                  IN  (argument.cli_end_position = 0 /\ argument.name \in DOMAIN AssembledArgs) =>
                         /\ \E k \in 3..(first - 1) : assembly.cmd[k] = FlagTok(argument.name)
                         /\ \A k \in first..Len(assembly.cmd) :
                               assembly.cmd[k] # FlagTok(argument.name)

\* clear is assembled for a query string with a flag argument and the
\* positional dag_id: --no_confirm stands between them.
C14_Witness ==
    /\ assembly.done
    /\ AssembledApi.name = "clear"
    /\ "dag_id" \in DOMAIN AssembledArgs
    /\ BlockSize = 1
    /\ assembly.cmd[BlockStart] = Tok("value", AssembledArgs["dag_id"])
    /\ assembly.cmd[BlockStart - 1] = FlagTok("no_confirm")
    /\ BlockStart - 1 > 3
    /\ assembly.cmd[3].kind = "flag"

RedirectFor(name) ==
    Tok("redirect", <<">> ", "airflow_base_log_folder", "/", name, ".log">>)

\* C15: for a background-mode descriptor the last token of the assembled
\* command vector is the detach marker, and the log-redirection token for
\* {logDir}/{operationName}.log stands immediately before it exactly when
\* the query string supplies no log-file argument; for a descriptor without
\* background mode neither token is appended.
C15_BackgroundTrailer ==
    assembly.done =>
        LET cmd == assembly.cmd
            n == Len(cmd)
            redirects == {k \in DOMAIN cmd : IsRedirect(cmd[k])}
            markers == {k \in DOMAIN cmd : IsDetachMarker(cmd[k])}
        IN  IF AssembledApi.background_mode
            THEN /\ markers = {n}
                 /\ IF "log-file" \in DOMAIN AssembledArgs
                    THEN redirects = {}
                    ELSE redirects = {n - 1} /\ cmd[n - 1] = RedirectFor(AssembledApi.name)
            ELSE redirects = {} /\ markers = {}

\* A background operation is assembled with a log-file argument: the marker
\* is last and there is no redirection.
C15_Witness ==
    /\ assembly.done
    /\ AssembledApi.background_mode
    /\ "log-file" \in DOMAIN AssembledArgs
    /\ IsDetachMarker(assembly.cmd[Len(assembly.cmd)])
    /\ \A k \in DOMAIN assembly.cmd : ~IsRedirect(assembly.cmd[k])

-----------------------------------------------------------------------------
(* Output filtering *)

InputLines == SplitLines(filtering.input)
BracketLines == {i \in DOMAIN InputLines : StartsWithBracket(InputLines[i])}
LastBracketLine == CHOOSE i \in BracketLines : \A j \in BracketLines : j <= i

\* C16: filtering removes from the captured stdout every line up to and
\* including the last line that starts with "[" and keeps the later lines
\* unchanged and in order, wherever that line stands, the final line
\* included.
C16_RemovesThroughLastBracketLine ==
    (filtering.passes >= 1 /\ BracketLines # {}) =>
        filtering.once = JoinLines(SubSeq(InputLines, LastBracketLine + 1, Len(InputLines)))

\* C17: filtering a stdout in which no line starts with "[" returns it
\* unchanged, for any number of lines; and filtering an already filtered
\* output changes nothing.
C17_NoBracketNoChangeAndIdempotent ==
    /\ (filtering.passes >= 1 /\ BracketLines = {}) => filtering.once = filtering.input
    /\ filtering.passes = 2 => filtering.stdout = filtering.once

-----------------------------------------------------------------------------
(* Synchronous execution *)

\* The child cannot go on: it has bytes to write and every stream it still
\* has to write to is full.
ChildBlocked ==
    /\ process.child = "running"
    /\ \E s \in Streams : process.pending[s] > 0
    /\ \A s \in Streams : process.pending[s] > 0 => process.pipe[s] = PipeCapacity
\* The parent cannot go on: it waits for the exit of a child that runs.
ParentBlocked == process.parent = "wait" /\ process.child = "running"

\* C18: in synchronous mode, for every child that writes a finite amount to
\* stdout and stderr and would then exit, waiting for the exit and reading
\* the pipes never block each other, and the executor returns with the
\* complete stdout and stderr.
C18_WaitAndReadNeverBlockEachOther ==
    /\ ~(ParentBlocked /\ ChildBlocked)
    /\ process.parent = "returned" =>
          /\ process.child = "exited"
          /\ process.output = process.written

-----------------------------------------------------------------------------
(* The registry *)

\* The end positions a descriptor declares, one per declaring argument.
EndPositionsOf(m) ==
    {m.arguments[i].cli_end_position :
        i \in {j \in DOMAIN m.arguments : m.arguments[j].cli_end_position # 0}}
DeclaringArgs(m) == {j \in DOMAIN m.arguments : m.arguments[j].cli_end_position # 0}

\* C21: for every descriptor of the registry the declared end positions are
\* pairwise distinct and form exactly the range 1..N, so that every slot of
\* the positional array is filled whenever all positional arguments are
\* supplied; and no two descriptors share a name.
C21_RegistryIntegrity ==
    /\ \A i \in DOMAIN apis_metadata :
          LET m == apis_metadata[i]
          IN  /\ \A j, k \in DeclaringArgs(m) :
                    j # k => m.arguments[j].cli_end_position # m.arguments[k].cli_end_position
              /\ EndPositionsOf(m) = 1..Cardinality(DeclaringArgs(m))
    /\ \A i, j \in DOMAIN apis_metadata :
          i # j => apis_metadata[i].name # apis_metadata[j].name
    /\ (assembly.done
        /\ \A j \in DeclaringArgs(AssembledApi) :
              AssembledApi.arguments[j].name \in DOMAIN AssembledArgs) =>
          \A k \in DOMAIN assembly.cmd : assembly.cmd[k] # ZeroTok

\* A descriptor with three positional arguments is assembled with all of
\* them supplied: no slot is left unfilled.
C21_Witness ==
    /\ assembly.done
    /\ Cardinality(DeclaringArgs(AssembledApi)) = 3
    /\ \A j \in DeclaringArgs(AssembledApi) :
          AssembledApi.arguments[j].name \in DOMAIN AssembledArgs
    /\ \A k \in DOMAIN assembly.cmd : assembly.cmd[k] # ZeroTok
    /\ Len(assembly.cmd) >= 5

-----------------------------------------------------------------------------
(* Process-wide state *)

\* C22: requests share no mutable state inside this layer: handling any
\* request, a run request with cfg_path included, leaves the process-wide
\* configuration and the logging setup exactly as they were at start-up.
C22_NoSharedMutableState ==
    /\ configuration = {}
    /\ root_handlers = AirflowHandlers

-----------------------------------------------------------------------------
(* Operations on the stores *)

HandlerRan(name) == Responded /\ <<"handler", name>> \in steps
AnsweredOK ==
    /\ response.kind = "envelope"
    /\ response.http = 200
    /\ response.body["status"] = "OK"
\* The workflow the Validator has looked up for the request.
RequestedDag == Strip(request.args["dag_id"])
OthersUnpaused(d) ==
    /\ DOMAIN dag_models \ {d} = DOMAIN before.dag_models \ {d}
    /\ \A e \in DOMAIN dag_models \ {d} : dag_models[e] = before.dag_models[e]

\* In the step, the paused state of d is kept, or an unpause request for d
\* is answered 200.
StaysPausedUnlessUnpaused(d) ==
    \/ d \in DOMAIN dag_models' /\ dag_models'[d]
    \/ /\ pc' = "responded"
       /\ <<"handler", "unpause">> \in steps'
       /\ Strip(request'.args["dag_id"]) = d
       /\ response'.http = 200

\* C23: a pause request for a workflow present in the catalog is answered
\* 200 with output describing the new paused state; afterwards the stored
\* paused state of that workflow is true and stays true across further
\* requests until an unpause request for it succeeds, which sets it to
\* false; the paused state of every other workflow is unchanged by both.
C23_PauseHoldsUntilUnpause ==
    /\ [](HandlerRan("pause") =>
            /\ AnsweredOK
            /\ "output" \in DOMAIN response.body
            /\ RequestedDag \in DOMAIN dag_models
            /\ dag_models[RequestedDag]
            /\ OthersUnpaused(RequestedDag))
    /\ []((HandlerRan("unpause") /\ AnsweredOK) =>
            /\ RequestedDag \in DOMAIN dag_models
            /\ ~dag_models[RequestedDag]
            /\ OthersUnpaused(RequestedDag))
    /\ [][\A d \in DOMAIN dag_models : dag_models[d] => StaysPausedUnlessUnpaused(d)]_vars

\* C24: every request that reaches the endpoint receives exactly one
\* response, that response is a JSON response envelope, and the selected
\* handler or command is run at most once for it.
C24_OneEnvelopePerRequest ==
    Responded =>
        /\ response.kind = "envelope"
        /\ Cardinality({s \in steps : s[1] \in {"handler", "spawn"}}) <= 1

\* The operations for which REST_API defines a handler taking the base
\* response (lines 762-1787).
CustomHandlers ==
    {"version", "rest_api_plugin_version", "variables", "connections", "pause", "unpause",
     "task_failed_deps", "trigger_dag", "test", "dag_state", "run", "list_tasks", "backfill",
     "list_dags", "task_state", "pool", "clear", "deploy_dag", "refresh_dag"}

\* C25: for every registry descriptor the dispatcher's lookup by the
\* operation's name yields the custom handler written for the operation, or
\* nothing, in which case the generic command line is assembled; it never
\* yields an unrelated attribute of the view such as the inherited render.
C25_OnlyCustomHandlersDispatched ==
    (Responded /\ Dispatched) =>
        \E i \in SelectedApis :
            IF apis_metadata[i].name \in CustomHandlers
            THEN /\ <<"handler", apis_metadata[i].name>> \in steps
                 /\ \A s \in steps : s[1] # "assemble"
            ELSE /\ <<"assemble", apis_metadata[i].name>> \in steps
                 /\ \A s \in steps : s[1] # "handler"

\* The request gives this argument a non-empty value.
Gives(name) == name \in DOMAIN request.args /\ request.args[name] # EmptyStr

\* C26: a pool request with only delete=NAME removes the pool record named
\* NAME when it exists and answers 200 (so that a following get=NAME finds
\* no record); when no such record exists it answers 400 and changes
\* nothing.  When several of set, get, delete are given, only the first in
\* the order set, get, delete is performed.
C26_PoolDelete ==
    HandlerRan("pool") =>
        /\ (Gives("delete") /\ ~Gives("set") /\ ~Gives("get")) =>
              IF request.args["delete"] \in DOMAIN before.pool_rows
              THEN /\ AnsweredOK
                   /\ DOMAIN pool_rows = DOMAIN before.pool_rows \ {request.args["delete"]}
                   /\ \A n \in DOMAIN pool_rows : pool_rows[n] = before.pool_rows[n]
              ELSE /\ IsError(400)
                   /\ pool_rows = before.pool_rows
        /\ (Gives("get") /\ ~Gives("set")) => pool_rows = before.pool_rows

\* The arguments of the list that the request does not carry.
NotCarried(names) == SelectSeq(names, LAMBDA n : n \notin DOMAIN request.args)

\* C27: a connections request with the add flag, a conn_id and a conn_uri,
\* for a conn_id not yet stored, inserts exactly one connection with that id
\* and answers 200; a request with add that lacks conn_id or conn_uri answers
\* 400 naming the missing arguments and inserts nothing.
C27_ConnectionAdd ==
    (HandlerRan("connections") /\ "add" \in DOMAIN request.args
     /\ "list" \notin DOMAIN request.args /\ "delete" \notin DOMAIN request.args) =>
        LET missing == NotCarried(<<"conn_id", "conn_uri">>)
        IN  IF missing # <<>>
            THEN /\ IsError(400)
                 /\ response.body["output"].arg = missing
                 /\ connection_rows = before.connection_rows
            ELSE request.args["conn_id"] \notin before.connection_rows =>
                    /\ AnsweredOK
                    /\ connection_rows = before.connection_rows \cup {request.args["conn_id"]}

-----------------------------------------------------------------------------
(* The order of the checks *)

OutputText == IF "output" \in DOMAIN response.body THEN response.body["output"].text ELSE ""
CatalogConsulted == <<"dagbag", "lookup">> \in steps
ArgumentsChecked == \E s \in steps : s[1] = "arguments"

\* C28: when a request has several defects at once exactly one error is
\* reported, chosen in the fixed order authentication failure (403), unknown
\* operation, missing required arguments, unknown workflow (all 400); a
\* request that lacks a required argument and names a workflow absent from
\* the catalog is reported as missing arguments, and the catalog is not
\* consulted.
C28_ErrorPrecedence ==
    Responded =>
        IF AuthRejected
        THEN IsError(403) /\ ~ArgumentsChecked /\ ~CatalogConsulted
        ELSE IF IsNone(ApiParam) \/ SelectedApis = {}
        THEN /\ IsError(400)
             /\ OutputText \in {"API should be provided", "API '%s' was not found"}
             /\ ~ArgumentsChecked /\ ~CatalogConsulted
        ELSE \A i \in SelectedApis :
                IF RequiredMissing(apis_metadata[i]) # <<>>
                THEN /\ IsError(400)
                     /\ OutputText = "The argument(s) %s are required"
                     /\ ~CatalogConsulted
                ELSE ( /\ "dag_id" \in ArgNamesOf(apis_metadata[i])
                       /\ "dag_id" \in DOMAIN request.args
                       /\ Strip(request.args["dag_id"]) \notin DagBag(before, None) ) =>
                        /\ IsError(400)
                        /\ OutputText = "The DAG ID '%s' does not exist"
                        /\ ~Dispatched

\* run is requested without task_id and execution_date and for a workflow
\* that is not in the catalog.
C28_Witness ==
    /\ Responded /\ ~AuthRejected
    /\ request.args = ("api" :> ApiNamed("run").chars) @@ ("dag_id" :> NoSuchDag)
    /\ IsError(400)
    /\ OutputText = "The argument(s) %s are required"
    /\ ~CatalogConsulted

\* C29: whenever the Validator accepts a request's workflow identifier as
\* present in the catalog, the handler that then runs operates on that same
\* identifier and finds the workflow: the check on the trimmed dag_id and
\* the handler's lookup of the dag_id as supplied never disagree.
C29_ValidatorAndHandlerAgree ==
    (Responded /\ \E s \in steps : s[1] = "handler") =>
        \A i \in SelectedApis :
            ( /\ "dag_id" \in ArgNamesOf(apis_metadata[i])
              /\ "dag_id" \in DOMAIN request.args
              /\ RequestedDag \in DagBag(before, None) ) =>
                /\ request.args["dag_id"] = RequestedDag
                /\ ~IsNone(get_dag(DagBag(before, None), request.args["dag_id"]))
                /\ ( /\ apis_metadata[i].name = "pause"
                     /\ "subdir" \notin DOMAIN request.args
                     /\ RequestedDag \in DOMAIN before.dag_models ) => AnsweredOK

\* C30: every database session a handler opens while serving a request is
\* closed before the response is returned, on the success path and on every
\* error path, for all handlers that open one.
C30_SessionsClosed ==
    Responded => (SessionOpen \in steps => SessionClose \in steps)
====
